---- MODULE Spec2Model ----
(***************************************************************************)
(* Model of the Sergamon pixel-font build pipeline:                        *)
(*   optimize-paths.ts  (optimizeGrid: raster -> rectangles)               *)
(*   glyph-to-path.ts   (glyphToPath: rectangles -> outline commands)      *)
(*   build-font.ts      (buildGlyphs: advance widths)                      *)
(*   validate-glyphs.ts (validateGlyphs: corpus checks)                    *)
(*                                                                         *)
(* The source indexes rows and columns from 0; TLA+ sequences are indexed  *)
(* from 1, so cell (row, col) of the source is grid[row + 1][col + 1].     *)
(* Rectangles, spans and path coordinates keep the source's 0-based        *)
(* values.                                                                 *)
(***************************************************************************)
EXTENDS Integers, Sequences, FiniteSets, TLC

VARIABLES
    pc,           \* position of the run: which function has returned
    grid,         \* boolean[][] handed to optimizeGrid or autoBold, by value
    rects,        \* Rectangle[] returned by optimizeGrid
    pixelSize,    \* config.metrics.pixelSize handed to glyphToPath
    baselineRow,  \* config.grid.baselineRow handed to glyphToPath
    path,         \* opentype.Path.commands built by glyphToPath
    fs,           \* the .glyph files of the glyph directories: path -> file
    config,       \* FontConfig read from font-config.json
    parsedGlyphs, \* ParsedGlyph[] returned by parseAllGlyphs
    results,      \* BuiltGlyph[] returned by buildGlyphs
    errors,       \* ValidationError[] returned by validateGlyphs
    heap,         \* the row arrays allocated so far, by address
    gridRows,     \* the argument of autoBold: the addresses of its rows
    bold,         \* the array returned by autoBold: the addresses of its rows
    regularGlyphs, \* main: the parsed glyphs of weight regular
    boldGlyphs,   \* main: the bold glyphs, hand-authored then derived
    exitCode,     \* the exit code of the validator process, if it has exited
    written,      \* the font files written by the build
    glyphFiles,   \* parseAllGlyphs: the paths found, sorted
    promises,     \* parseAllGlyphs: the promise of parseGlyph for every path
    glyphArray,   \* main: the glyphs handed to the font, .notdef first
    liga,         \* the rules added to the 'liga' feature, in order
    warnings,     \* the warnings written by console.warn, in order
    rawHeader,    \* parseHeader: the header lines handed to it
    headerFile,   \* parseHeader: the name of the file the lines come from
    parsedHeader, \* parseHeader: the GlyphHeader returned, if it has returned
    isBuilding,   \* dev-preview.ts: the flag of runBuild
    watcherQueue, \* the watcher events emitted and not yet handed to a callback
    delivered,    \* the number of watcher events handed to their callback
    buildLog      \* the outcome of every call of runBuild, in order

vars == <<pc, grid, rects, pixelSize, baselineRow, path,
          fs, config, parsedGlyphs, results, errors, heap, gridRows, bold,
          regularGlyphs, boldGlyphs, exitCode, written, glyphFiles, promises,
          glyphArray, liga, warnings, rawHeader, headerFile, parsedHeader,
          isBuilding, watcherQueue, delivered, buildLog>>

\* the state of the development server
devVars == <<isBuilding, watcherQueue, delivered, buildLog>>

\* the argument and the result of a call of parseHeader followed on its own
headerVars == <<rawHeader, headerFile, parsedHeader>>

\* the font under construction and the console of the build
fontVars == <<glyphArray, liga, warnings>>

\* the locals of a run of parseAllGlyphs followed step by step
parseVars == <<glyphFiles, promises>>

\* the exit code of the validator and the output of the build
gateVars == <<exitCode, written>>

\* the variables of the separation by weight, untouched by the other runs
weightVars == <<regularGlyphs, boldGlyphs>>

\* the variables of the autoBold run, untouched by the other runs
boldVars == <<heap, gridRows, bold>>

\* the variables of the corpus runs, untouched by the per-glyph runs
corpusVars == <<fs, config, parsedGlyphs, results, errors>>

\* the variables of the per-glyph runs, untouched by the corpus runs
glyphVars == <<grid, rects, pixelSize, baselineRow, path>>

----------------------------------------------------------------------------
(* Bounds of the model *)

MaxRows == 3
MaxCols == 3
MaxRaggedRows == 2
MaxPathRows == 3
MaxPathCols == 2
MaxPixel == 2
MaxBaseline == 3
MaxBuildCols == 4
MaxStdWidth == 2
GlyphWidth == 2
GlyphHeight == 2
MaxScanLines == 4
MaxHeaderLines == 3
MaxEvents == 3

(* Dimensions of the shipped glyph grid *)
ROWS == 16
COLS == 8

----------------------------------------------------------------------------
(* Small helpers *)

Range(s) == {s[i] : i \in 1..Len(s)}

\* the concatenation of the sequences of ss, in order
RECURSIVE Flatten(_)
Flatten(ss) ==
    IF Len(ss) = 0 THEN <<>>
    ELSE IF Len(ss) = 1 THEN ss[1]
    ELSE LET half == Len(ss) \div 2
         IN  Flatten(SubSeq(ss, 1, half)) \o Flatten(SubSeq(ss, half + 1, Len(ss)))

----------------------------------------------------------------------------
(* optimize-paths.ts *)

\* inner while loop of extractRowSpans: first column at or after col that is
\* past the end of the row or not filled
RECURSIVE RunEnd(_, _)
RunEnd(row, col) ==
    IF col < Len(row) /\ row[col + 1] THEN RunEnd(row, col + 1) ELSE col

\* NoGapSpan counting the cell that ended the run as part of it
WideSpan(startCol, rowIndex, endCol) ==
    [x |-> startCol, y |-> rowIndex, w |-> endCol - startCol + 1]

\* NoGapSpan numbering rows from 1
OneBasedRowSpan(startCol, rowIndex, endCol) ==
    [x |-> startCol, y |-> rowIndex + 1, w |-> endCol - startCol]

\* the span pushed for a run of filled cells [startCol, endCol) of a row
NoGapSpan(startCol, rowIndex, endCol) ==
    [x |-> startCol, y |-> rowIndex, w |-> endCol - startCol]

\* outer while loop of extractRowSpans, from column col on
RECURSIVE ScanRow(_, _, _, _)
ScanRow(row, rowIndex, col, spans) ==
    IF col >= Len(row) THEN spans
    ELSE IF row[col + 1]
         THEN LET endCol == RunEnd(row, col)
              IN  ScanRow(row, rowIndex, endCol,
                          Append(spans, NoGapSpan(col, rowIndex, endCol)))
         ELSE ScanRow(row, rowIndex, col + 1, spans)

extractRowSpans(row, rowIndex) == ScanRow(row, rowIndex, 0, <<>>)

\* a key of the column alone
KeyByColumn(span) == <<span.x>>

\* the Map key `${span.x}:${span.w}`: equal exactly when x and w are equal
SpanKey(span) == <<span.x, span.w>>

\* keys of byKey in insertion order (a Map iterates in insertion order)
RECURSIVE KeyOrder(_, _)
KeyOrder(allSpans, keys) ==
    IF Len(allSpans) = 0 THEN keys
    ELSE LET k == SpanKey(Head(allSpans))
         IN  KeyOrder(Tail(allSpans),
                      IF k \in Range(keys) THEN keys ELSE Append(keys, k))

\* byKey.get(key): the spans of one key, in the order they were pushed
GroupOf(allSpans, key) ==
    SelectSeq(allSpans, LAMBDA s : SpanKey(s) = key)

\* spans.sort((a, b) => a.y - b.y): stable insertion into a sorted prefix
RECURSIVE InsertByY(_, _)
InsertByY(sorted, s) ==
    IF Len(sorted) = 0 THEN <<s>>
    ELSE IF sorted[Len(sorted)].y <= s.y THEN Append(sorted, s)
    ELSE Append(InsertByY(SubSeq(sorted, 1, Len(sorted) - 1), s),
                sorted[Len(sorted)])

RECURSIVE SortByY(_, _)
SortByY(spans, sorted) ==
    IF Len(spans) = 0 THEN sorted
    ELSE SortByY(Tail(spans), InsertByY(sorted, Head(spans)))

\* ExtendDown that takes one following row at most
ExtendByOne(spans, i, height) ==
    IF i + height < Len(spans) /\ spans[i + height + 1].y = spans[i + 1].y + height
    THEN height + 1
    ELSE height

\* ExtendDown that never looks at the next span
NoExtend(spans, i, height) == height

\* inner while loop of mergeSpansVertically: the height reached from index i
\* (0-based) of a sorted group, starting with the given height
RECURSIVE ExtendDown(_, _, _)
ExtendDown(spans, i, height) ==
    IF i + height < Len(spans) /\ spans[i + height + 1].y = spans[i + 1].y + height
    THEN ExtendDown(spans, i, height + 1)
    ELSE height

\* MergeGroup advancing by one span instead of by the merged height
RECURSIVE MergeGroupStepOne(_, _, _)
MergeGroupStepOne(spans, i, out) ==
    IF i >= Len(spans) THEN out
    ELSE LET start  == spans[i + 1]
             height == ExtendDown(spans, i, 1)
         IN  MergeGroupStepOne(spans, i + 1,
                               Append(out, [x |-> start.x, y |-> start.y,
                                            w |-> start.w, h |-> height]))

\* outer while loop of mergeSpansVertically over one sorted group
RECURSIVE MergeGroup(_, _, _)
MergeGroup(spans, i, out) ==
    IF i >= Len(spans) THEN out
    ELSE LET start  == spans[i + 1]
             height == ExtendDown(spans, i, 1)
         IN  MergeGroup(spans, i + height,
                        Append(out, [x |-> start.x, y |-> start.y,
                                     w |-> start.w, h |-> height]))

RECURSIVE MergeKeys(_, _, _)
MergeKeys(allSpans, keys, out) ==
    IF Len(keys) = 0 THEN out
    ELSE MergeKeys(allSpans, Tail(keys),
                   MergeGroup(SortByY(GroupOf(allSpans, Head(keys)), <<>>), 0, out))

mergeSpansVertically(allSpans) ==
    MergeKeys(allSpans, KeyOrder(allSpans, <<>>), <<>>)

\* step 1 of optimizeGrid: the spans of every row, row by row
AllSpans(g) == Flatten([r \in 1..Len(g) |-> extractRowSpans(g[r], r - 1)])

optimizeGrid(g) ==
    LET allSpans == AllSpans(g)
    IN  IF Len(allSpans) = 0 THEN <<>> ELSE mergeSpansVertically(allSpans)

----------------------------------------------------------------------------
(* Inputs *)

RowsOfWidth(w) == [1..w -> BOOLEAN]

RectGrids(maxRows, maxCols) ==
    UNION {[1..h -> RowsOfWidth(w)] : h \in 0..maxRows, w \in 0..maxCols}

AnyRow(maxCols) == UNION {RowsOfWidth(w) : w \in 0..maxCols}

RaggedGrids(maxRows, maxCols) ==
    UNION {[1..h -> AnyRow(maxCols)] : h \in 0..maxRows}

\* a ROWS x COLS grid whose rows first..last (0-based) are filled
BandGrid(first, last) ==
    [r \in 1..ROWS |-> [c \in 1..COLS |-> (first <= r - 1 /\ r - 1 <= last)]]

ScenarioGrids == {BandGrid(6, 7), BandGrid(1, 0)}

Grids ==
    RectGrids(MaxRows, MaxCols) \cup RaggedGrids(MaxRaggedRows, MaxCols)
        \cup ScenarioGrids

----------------------------------------------------------------------------
(* glyph-to-path.ts *)

\* FontX numbering columns from 1
OneBasedFontX(col, p) == (col + 1) * p

\* fontX = col * pixelSize (left edge of a pixel column)
FontX(col, p) == col * p

\* FontY with Y growing downward, as in the pixel grid
DownwardFontY(row, p, b) == (row - b) * p

\* fontY = (baselineRow - row) * pixelSize (top edge of a pixel row)
FontY(row, p, b) == (b - row) * p

\* RectCommands visiting the corners top-left, bottom-left, bottom-right,
\* top-right
CounterClockwiseCommands(rect, p, b) ==
    LET x0 == FontX(rect.x, p)
        y0 == FontY(rect.y, p, b)
        x1 == FontX(rect.x + rect.w, p)
        y1 == FontY(rect.y + rect.h, p, b)
    IN  << [type |-> "M", x |-> x0, y |-> y0],
           [type |-> "L", x |-> x0, y |-> y1],
           [type |-> "L", x |-> x1, y |-> y1],
           [type |-> "L", x |-> x1, y |-> y0],
           [type |-> "Z"] >>

\* the five commands pushed for one rectangle: moveTo, three lineTo, closePath
RectCommands(rect, p, b) ==
    LET x0 == FontX(rect.x, p)
        y0 == FontY(rect.y, p, b)
        x1 == FontX(rect.x + rect.w, p)
        y1 == FontY(rect.y + rect.h, p, b)
    IN  << [type |-> "M", x |-> x0, y |-> y0],
           [type |-> "L", x |-> x1, y |-> y0],
           [type |-> "L", x |-> x1, y |-> y1],
           [type |-> "L", x |-> x0, y |-> y1],
           [type |-> "Z"] >>

\* glyphToPath leaving out the last rectangle
SkipLastRect(rs, p, b) ==
    Flatten([k \in 1..(Len(rs) - 1) |-> RectCommands(rs[k], p, b)])

\* glyphToPath: the commands of every rectangle, in the order of the rectangles
glyphToPath(rs, p, b) ==
    Flatten([k \in 1..Len(rs) |-> RectCommands(rs[k], p, b)])

----------------------------------------------------------------------------
(* The compactor run: a grid is handed to optimizeGrid *)

\* no development server is running
NoDev == isBuilding = FALSE /\ watcherQueue = <<>> /\ delivered = 0 /\ buildLog = <<>>

\* no call of parseHeader is followed on its own
NoHeader ==
    rawHeader = <<>> /\ headerFile = [some |-> FALSE] /\ parsedHeader = [some |-> FALSE]

\* no font is assembled and nothing was warned about
NoFont == glyphArray = <<>> /\ liga = <<>> /\ warnings = <<>>

\* parseAllGlyphs is not followed step by step
NoParse == glyphFiles = <<>> /\ promises = <<>>

\* no process has exited and nothing was written
NoGate == exitCode = [some |-> FALSE] /\ written = {}

\* no separation by weight is involved in the run
NoWeights == regularGlyphs = <<>> /\ boldGlyphs = <<>>

\* no call of autoBold is involved in the run
NoBold == heap = <<>> /\ gridRows = <<>> /\ bold = <<>>

\* no corpus is involved in a per-glyph run
NoCorpus ==
    /\ fs = <<>>
    /\ config = [grid |-> [width |-> 0, height |-> 0, baselineRow |-> 0],
                 metrics |-> [pixelSize |-> 0]]
    /\ parsedGlyphs = <<>>
    /\ results = <<>>
    /\ errors = <<>>

Init ==
    /\ pc = "grid"
    /\ grid \in Grids
    /\ rects = <<>>
    /\ pixelSize = 0
    /\ baselineRow = 0
    /\ path = <<>>
    /\ NoCorpus
    /\ NoBold
    /\ NoWeights
    /\ NoGate
    /\ NoParse
    /\ NoFont
    /\ NoHeader
    /\ NoDev

OptimizeGrid ==
    /\ pc = "grid"
    /\ rects' = optimizeGrid(grid)
    /\ pc' = "rects"
    /\ UNCHANGED <<grid, pixelSize, baselineRow, path>>
    /\ UNCHANGED corpusVars
    /\ UNCHANGED boldVars
    /\ UNCHANGED weightVars
    /\ UNCHANGED gateVars
    /\ UNCHANGED parseVars
    /\ UNCHANGED fontVars
    /\ UNCHANGED headerVars
    /\ UNCHANGED devVars

Next == OptimizeGrid

Spec == Init /\ [][Next]_vars

----------------------------------------------------------------------------
(* The per-glyph run of buildGlyphs: optimizeGrid, then glyphToPath with the
   configured pixel size and baseline row *)

PixelSizes == 0..MaxPixel

BaselineRows == 0..MaxBaseline

PathGrids ==
    RectGrids(MaxPathRows, MaxPathCols)
        \cup RaggedGrids(MaxRaggedRows, MaxPathCols) \cup ScenarioGrids

InitPath ==
    /\ pc = "grid"
    /\ grid \in PathGrids
    /\ rects = <<>>
    /\ pixelSize = 0
    /\ baselineRow = 0
    /\ path = <<>>
    /\ NoCorpus
    /\ NoBold
    /\ NoWeights
    /\ NoGate
    /\ NoParse
    /\ NoFont
    /\ NoHeader
    /\ NoDev

GlyphToPath ==
    /\ pc = "rects"
    /\ \E p \in PixelSizes, b \in BaselineRows :
          /\ pixelSize' = p
          /\ baselineRow' = b
          /\ path' = glyphToPath(rects, p, b)
    /\ pc' = "path"
    /\ UNCHANGED <<grid, rects>>
    /\ UNCHANGED corpusVars
    /\ UNCHANGED boldVars
    /\ UNCHANGED weightVars
    /\ UNCHANGED gateVars
    /\ UNCHANGED parseVars
    /\ UNCHANGED fontVars
    /\ UNCHANGED headerVars
    /\ UNCHANGED devVars

NextPath == OptimizeGrid \/ GlyphToPath

SpecPath == InitPath /\ [][NextPath]_vars

----------------------------------------------------------------------------
(* parse-glyph.ts *)

\* a value of type T | undefined
None == [some |-> FALSE]
Some(v) == [some |-> TRUE, val |-> v]

\* content.split("\n"), scanning the characters from index i on
RECURSIVE SplitFrom(_, _, _, _)
SplitFrom(content, i, cur, lines) ==
    IF i > Len(content) THEN Append(lines, cur)
    ELSE IF content[i] = "\n"
         THEN SplitFrom(content, i + 1, <<>>, Append(lines, cur))
         ELSE SplitFrom(content, i + 1, Append(cur, content[i]), lines)

\* the lines of a file, the empty line after a final newline removed
FileLines(content) ==
    LET lines == SplitFrom(content, 1, <<>>, <<>>)
    IN  IF Len(lines) > 0 /\ lines[Len(lines)] = <<>>
        THEN SubSeq(lines, 1, Len(lines) - 1)
        ELSE lines

\* line.startsWith("#")
StartsWithHash(line) == Len(line) > 0 /\ line[1] = "#"

\* line.trim() === ""
IsBlank(line) == \A i \in 1..Len(line) : line[i] \in {" ", "\t", "\r"}

\* a scan that skips the blank lines wherever they are
RECURSIVE ScanSkippingBlanks(_, _, _, _)
ScanSkippingBlanks(lines, inGrid, headerLines, gridLines) ==
    IF Len(lines) = 0 THEN [headerLines |-> headerLines, gridLines |-> gridLines]
    ELSE LET line == Head(lines)
         IN  IF IsBlank(line)
             THEN ScanSkippingBlanks(Tail(lines), inGrid, headerLines, gridLines)
             ELSE IF ~inGrid /\ StartsWithHash(line)
                  THEN ScanSkippingBlanks(Tail(lines), FALSE, Append(headerLines, line),
                                          gridLines)
                  ELSE ScanSkippingBlanks(Tail(lines), TRUE, headerLines,
                                          Append(gridLines, line))

\* the loop of parseGlyph over the lines: header lines and grid lines
RECURSIVE ScanLines(_, _, _, _)
ScanLines(lines, inGrid, headerLines, gridLines) ==
    IF Len(lines) = 0 THEN [headerLines |-> headerLines, gridLines |-> gridLines]
    ELSE LET line == Head(lines)
         IN  IF ~inGrid
             THEN IF StartsWithHash(line)
                  THEN ScanLines(Tail(lines), FALSE, Append(headerLines, line), gridLines)
                  ELSE IF IsBlank(line)
                       THEN ScanLines(Tail(lines), FALSE, headerLines, gridLines)
                       ELSE ScanLines(Tail(lines), TRUE, headerLines,
                                      Append(gridLines, line))
             ELSE ScanLines(Tail(lines), TRUE, headerLines, Append(gridLines, line))

\* '.' maps to false, 'X' maps to true
parseGrid(gridLines) ==
    [r \in 1..Len(gridLines) |->
        [c \in 1..Len(gridLines[r]) |-> gridLines[r][c] = "X"]]

\* the header fields of a file; the text of the header lines is not modelled,
\* the fields the header lines and the file name yield are part of the file
parseHeader(headerLines, file) == file.hdr

\* parseHeader on the header lines themselves.  A header line is kept as
\* what the patterns of parseHeader match in it, after the leading '#' and
\* the surrounding blanks are stripped:
\*   empty                       ""
\*   weight, weight              /^weight:\s*(regular|bold)$/i
\*   components, names           /^components:\s+(.+)$/i
\*   codepoint label, label, cp  /^(.+?)\s+\(U\+([0-9A-Fa-f]{4,6})\)$/
\*   ligature label, label       /^(.+?)\s+\(ligature\)$/i
\*   plain label, label          any other line
\* A file name is kept as the hex digits after "U+" and before "_", if it
\* starts so, their value, and the rest of the name without "LIG_" and
\* ".glyph".
HeaderLine(kind, weight, names, label, cp) ==
    [kind |-> kind, weight |-> weight, names |-> names, label |-> label, cp |-> cp]

EmptyLine == HeaderLine("empty", "", <<>>, "", 0)
WeightLine(weight) == HeaderLine("weight", weight, <<>>, "", 0)
ComponentsLine(names) == HeaderLine("components", "", names, "", 0)
CodepointLabel(label, cp) == HeaderLine("codepoint label", "", <<>>, label, cp)
LigatureLabel(label) == HeaderLine("ligature label", "", <<>>, label, 0)
PlainLabel(label) == HeaderLine("plain label", "", <<>>, label, 0)

FileName(hasPrefix, digits, value, stem) ==
    [hasPrefix |-> hasPrefix, digits |-> digits, value |-> value, stem |-> stem]

\* the loop of parseHeader: the fields after the lines from index i on
RECURSIVE HeaderFields(_, _, _)
HeaderFields(headerLines, i, fields) ==
    IF i > Len(headerLines) THEN fields
    ELSE LET line == headerLines[i]
         IN  CASE line.kind = "empty" ->
                    HeaderFields(headerLines, i + 1, fields)
               [] line.kind = "weight" ->
                    HeaderFields(headerLines, i + 1,
                                 [fields EXCEPT !.weight = Some(line.weight)])
               [] line.kind = "components" ->
                    HeaderFields(headerLines, i + 1,
                                 [fields EXCEPT !.components = Some(line.names)])
               [] OTHER ->
                    IF fields.label.some
                    THEN HeaderFields(headerLines, i + 1, fields)
                    ELSE IF line.kind = "codepoint label"
                         THEN HeaderFields(headerLines, i + 1,
                                  [fields EXCEPT !.label = Some(line.label),
                                                 !.codepoint = Some(line.cp)])
                         ELSE HeaderFields(headerLines, i + 1,
                                  [fields EXCEPT !.label = Some(line.label)])

\* codepoint === undefined && components === undefined
FilenameApplies(fields) == ~fields.codepoint.some /\ ~fields.components.some

\* basename.match(/^U\+([0-9A-Fa-f]{4,6})_/)
FilenameCodepoint(name) ==
    IF name.hasPrefix /\ name.digits \in 4..6 THEN Some(name.value) ELSE None

parseHeaderLines(headerLines, name) ==
    LET fields == HeaderFields(headerLines, 1,
                      [label |-> None, codepoint |-> None, weight |-> None,
                       components |-> None])
    IN  [label      |-> IF fields.label.some THEN fields.label.val ELSE name.stem,
         codepoint  |-> IF FilenameApplies(fields)
                        THEN FilenameCodepoint(name) ELSE fields.codepoint,
         weight     |-> IF fields.weight.some THEN fields.weight.val ELSE "regular",
         components |-> fields.components]

\* path.resolve(filePath): the absolute path of a file of the project
Resolve(rel) == [root |-> "PROJECT_ROOT", rel |-> rel]

parseGlyph(rel, file) ==
    LET split  == ScanLines(FileLines(file.content), FALSE, <<>>, <<>>)
        g      == parseGrid(split.gridLines)
        height == Len(g)
    IN  [header   |-> parseHeader(split.headerLines, file),
         grid     |-> g,
         filePath |-> Resolve(rel),
         width    |-> IF height > 0 THEN Len(g[1]) ELSE 0,
         height   |-> height]

\* DescendingPaths: the paths from the greatest to the least
DescendingPaths(paths) ==
    IF paths = {} THEN <<>>
    ELSE LET least    == CHOOSE m \in paths : \A n \in paths : m <= n
             greatest == CHOOSE m \in paths : \A n \in paths : m >= n
         IN  SelectSeq([i \in 1..(greatest - least + 1) |-> greatest - i + 1],
                       LAMBDA p : p \in paths)

\* glyphFiles.sort(): paths are numbered in the order of their strings
SortPaths(paths) ==
    IF paths = {} THEN <<>>
    ELSE LET least    == CHOOSE m \in paths : \A n \in paths : m <= n
             greatest == CHOOSE m \in paths : \A n \in paths : m >= n
         IN  SelectSeq([i \in 1..(greatest - least + 1) |-> least + i - 1],
                       LAMBDA p : p \in paths)

parseAllGlyphs(fsys) ==
    LET sorted == SortPaths(DOMAIN fsys)
    IN  [i \in 1..Len(sorted) |-> parseGlyph(sorted[i], fsys[sorted[i]])]

----------------------------------------------------------------------------
(* build-font.ts *)

\* labelToCodepoint.get(name) for the map main fills from the glyphs that
\* have a codepoint, a later glyph replacing an earlier one of the same label
RECURSIVE LabelToCodepoint(_, _)
LabelToCodepoint(glyphs, name) ==
    IF Len(glyphs) = 0 THEN None
    ELSE LET g == glyphs[Len(glyphs)]
         IN  IF g.header.codepoint.some /\ g.header.label = name
             THEN Some(g.header.codepoint.val)
             ELSE LabelToCodepoint(SubSeq(glyphs, 1, Len(glyphs) - 1), name)

\* the codepoints of the names that are known, the others left out
ResolveKnownOnly(components, glyphs) ==
    LET known == SelectSeq(components, LAMBDA n : LabelToCodepoint(glyphs, n).some)
    IN  Some([k \in 1..Len(known) |-> LabelToCodepoint(glyphs, known[k]).val])

\* resolveComponentCodepoints: undefined as soon as one name is unknown
RECURSIVE ResolveFrom(_, _, _)
ResolveFrom(components, glyphs, codepoints) ==
    IF Len(components) = 0 THEN Some(codepoints)
    ELSE LET cp == LabelToCodepoint(glyphs, Head(components))
         IN  IF ~cp.some THEN None
             ELSE ResolveFrom(Tail(components), glyphs, Append(codepoints, cp.val))

resolveComponentCodepoints(components, glyphs) ==
    ResolveFrom(components, glyphs, <<>>)

\* the console.warn of resolveComponentCodepoints: one warning, for the first
\* name without a codepoint
ResolveWarnings(components, glyphs) ==
    LET unknown == SelectSeq(components, LAMBDA n : ~LabelToCodepoint(glyphs, n).some)
    IN  IF Len(unknown) = 0 THEN <<>>
        ELSE <<[kind |-> "no known codepoint", component |-> Head(unknown)]>>

\* the warnings of one call of buildGlyphs, glyph by glyph
BuildWarnings(glyphs) ==
    Flatten([i \in 1..Len(glyphs) |->
        IF glyphs[i].header.components.some
        THEN ResolveWarnings(glyphs[i].header.components.val, glyphs)
        ELSE <<>>])

\* "Determine advance width" of buildGlyphs
AdvanceWidth(pg, cfg) ==
    LET stdAdvanceWidth == cfg.metrics.pixelSize * cfg.grid.width
        isLigature      == pg.header.components.some
    IN  IF isLigature THEN cfg.metrics.pixelSize * pg.width ELSE stdAdvanceWidth

\* the body of the loop of buildGlyphs for one parsed glyph
BuildGlyph(pg, cfg, glyphs) ==
    LET glyphPath == glyphToPath(optimizeGrid(pg.grid), cfg.metrics.pixelSize,
                                 cfg.grid.baselineRow)
        glyph == [name         |-> pg.header.label,
                  unicode      |-> pg.header.codepoint,
                  advanceWidth |-> AdvanceWidth(pg, cfg),
                  path         |-> glyphPath]
    IN  [glyph |-> glyph,
         ligatureComponents |->
             IF pg.header.components.some
             THEN resolveComponentCodepoints(pg.header.components.val, glyphs)
             ELSE None]

\* buildGlyphs with the label map main builds from all parsed glyphs
buildGlyphs(glyphs, cfg) ==
    [i \in 1..Len(glyphs) |-> BuildGlyph(glyphs[i], cfg, glyphs)]

----------------------------------------------------------------------------
(* The build run: the glyph files are parsed and the glyphs built *)

Config(width, height, baseline, pixel) ==
    [grid    |-> [width |-> width, height |-> height, baselineRow |-> baseline],
     metrics |-> [pixelSize |-> pixel]]

Header(label, codepoint, components) ==
    [label |-> label, codepoint |-> codepoint, weight |-> "regular",
     components |-> components]

\* the header fields of the files of the build run, by path; the paths are
\* numbered in the order of their strings:
\*   glyphs/ascii/U+003D_equal.glyph, glyphs/ascii/U+003E_greater.glyph,
\*   glyphs/ligatures/LIG_equal_equal_equal.glyph,
\*   glyphs/ligatures/LIG_equal_greater.glyph
BuildHeaders ==
    61  :> Header("equal", Some(61), None) @@
    62  :> Header("greater", Some(62), None) @@
    301 :> Header("===", None, Some(<<"equal", "equal", "equal">>)) @@
    302 :> Header("=>", None, Some(<<"equal", "greater">>))

\* a raster line of w cells, filled in the odd columns
RasterLine(w) == [c \in 1..w |-> IF c % 2 = 1 THEN "X" ELSE "."]

\* a file of one header line, a blank line and the given raster lines
RECURSIVE JoinLines(_)
JoinLines(lines) ==
    IF Len(lines) = 0 THEN <<>> ELSE Head(lines) \o <<"\n">> \o JoinLines(Tail(lines))

GlyphText(rasterLines) == JoinLines(<< <<"#">>, <<>> >> \o rasterLines)

BuildContents ==
    {GlyphText(<<>>)} \cup {GlyphText(<<RasterLine(w)>>) : w \in 1..MaxBuildCols}

BuildFileSystems ==
    {[rel \in DOMAIN f |-> [hdr |-> BuildHeaders[rel], content |-> f[rel]]] :
        f \in UNION {[present -> BuildContents] : present \in SUBSET DOMAIN BuildHeaders}}

BuildConfigs ==
    {Config(w, 1, 1, p) : w \in 1..MaxStdWidth, p \in 1..MaxPixel}

InitBuild ==
    /\ pc = "files"
    /\ fs \in BuildFileSystems
    /\ config \in BuildConfigs
    /\ parsedGlyphs = <<>>
    /\ results = <<>>
    /\ errors = <<>>
    /\ grid = <<>> /\ rects = <<>> /\ pixelSize = 0 /\ baselineRow = 0 /\ path = <<>>
    /\ NoBold
    /\ NoWeights
    /\ NoGate
    /\ NoParse
    /\ NoFont
    /\ NoHeader
    /\ NoDev

ParseAllGlyphs ==
    /\ pc = "files"
    /\ parsedGlyphs' = parseAllGlyphs(fs)
    /\ pc' = "parsed"
    /\ UNCHANGED <<fs, config, results, errors>>
    /\ UNCHANGED glyphVars
    /\ UNCHANGED boldVars
    /\ UNCHANGED weightVars
    /\ UNCHANGED gateVars
    /\ UNCHANGED parseVars
    /\ UNCHANGED fontVars
    /\ UNCHANGED headerVars
    /\ UNCHANGED devVars

BuildGlyphs ==
    /\ pc = "parsed"
    /\ results' = buildGlyphs(parsedGlyphs, config)
    /\ pc' = "built"
    /\ UNCHANGED <<fs, config, parsedGlyphs, errors>>
    /\ UNCHANGED glyphVars
    /\ UNCHANGED boldVars
    /\ UNCHANGED weightVars
    /\ UNCHANGED gateVars
    /\ UNCHANGED parseVars
    /\ warnings' = BuildWarnings(parsedGlyphs)
    /\ UNCHANGED <<glyphArray, liga>>
    /\ UNCHANGED headerVars
    /\ UNCHANGED devVars

NextBuild == ParseAllGlyphs \/ BuildGlyphs

SpecBuild == InitBuild /\ [][NextBuild]_vars

----------------------------------------------------------------------------
(* validate-glyphs.ts *)

ASCII_START == 32
ASCII_END == 126

\* path.relative(PROJECT_ROOT, absPath)
relativeToProject(absPath) == absPath.rel

\* the file field of an error: the paths joined with ", ", or a directory
FileRef(rels) == [files |-> rels, dir |-> ""]
DirRef(dir) == [files |-> <<>>, dir |-> dir]

\* an error; the message is kept as its kind and the values printed in it
Err(file, kind, cp, row, got, expected, line) ==
    [file    |-> file,
     message |-> [kind |-> kind, cp |-> cp, row |-> row, got |-> got,
                  expected |-> expected, line |-> line]]

\* 1. grid height
HeightErrors(glyph, rel, cfg) ==
    IF glyph.height # cfg.grid.height
    THEN <<Err(FileRef(<<rel>>), "height", 0, 0, glyph.height, cfg.grid.height, <<>>)>>
    ELSE <<>>

\* 2. grid width
WidthErrors(glyph, rel, cfg) ==
    IF glyph.width # cfg.grid.width
    THEN <<Err(FileRef(<<rel>>), "width", 0, 0, glyph.width, cfg.grid.width, <<>>)>>
    ELSE <<>>

\* a row check that reports nothing
NoRowErrors(glyph, rel, cfg, row) == <<>>

\* 3. every row against the expected width, from row index `row` (0-based) on
RECURSIVE RowErrors(_, _, _, _)
RowErrors(glyph, rel, cfg, row) ==
    IF row >= Len(glyph.grid) THEN <<>>
    ELSE (IF Len(glyph.grid[row + 1]) # cfg.grid.width
          THEN <<Err(FileRef(<<rel>>), "row", 0, row + 1,
                     Len(glyph.grid[row + 1]), cfg.grid.width, <<>>)>>
          ELSE <<>>)
         \o RowErrors(glyph, rel, cfg, row + 1)

\* IsRasterLine of the pattern /^[.X]*$/, which an empty line matches
AllowsEmptyLine(line) == \A i \in 1..Len(line) : line[i] \in {".", "X"}

\* /^[.X]+$/.test(line)
IsRasterLine(line) ==
    Len(line) > 0 /\ \A i \in 1..Len(line) : line[i] \in {".", "X"}

\* 4. the loop over the lines of the re-read file
RECURSIVE CharScan(_, _, _, _)
CharScan(lines, rel, inGrid, gridRow) ==
    IF Len(lines) = 0 THEN <<>>
    ELSE LET line == Head(lines)
         IN  IF ~inGrid /\ (StartsWithHash(line) \/ IsBlank(line))
             THEN CharScan(Tail(lines), rel, FALSE, gridRow)
             ELSE (IF ~IsRasterLine(line)
                   THEN <<Err(FileRef(<<rel>>), "char", 0, gridRow + 1, 0, 0, line)>>
                   ELSE <<>>)
                  \o CharScan(Tail(lines), rel, TRUE, gridRow + 1)

\* fs.readFileSync(glyph.filePath, "utf-8"); no value when the read throws
readFileSync(fsys, absPath) ==
    IF absPath.rel \in DOMAIN fsys THEN Some(fsys[absPath.rel].content) ELSE None

CharErrors(glyph, rel, fsys) ==
    LET content == readFileSync(fsys, glyph.filePath)
    IN  IF content.some
        THEN CharScan(FileLines(content.val), rel, FALSE, 0)
        ELSE <<Err(FileRef(<<rel>>), "unreadable", 0, 0, 0, 0, <<>>)>>

\* 5. valid Unicode codepoint
CodepointErrors(glyph, rel) ==
    IF glyph.header.codepoint.some
    THEN LET cp == glyph.header.codepoint.val
         IN  (IF cp < 0 \/ cp > 1114111
              THEN <<Err(FileRef(<<rel>>), "range", cp, 0, 0, 0, <<>>)>>
              ELSE <<>>)
             \o
             (IF cp >= 55296 /\ cp <= 57343
              THEN <<Err(FileRef(<<rel>>), "surrogate", cp, 0, 0, 0, <<>>)>>
              ELSE <<>>)
    ELSE <<>>

\* GlyphErrors stopping at the first check that reports an error
FirstFailingCheck(glyph, cfg, fsys) ==
    LET rel == relativeToProject(glyph.filePath)
        checks == << HeightErrors(glyph, rel, cfg), WidthErrors(glyph, rel, cfg),
                     RowErrors(glyph, rel, cfg, 0), CharErrors(glyph, rel, fsys),
                     CodepointErrors(glyph, rel) >>
        failing == {n \in 1..Len(checks) : checks[n] # <<>>}
    IN  IF failing = {} THEN <<>>
        ELSE checks[CHOOSE n \in failing : \A m \in failing : n <= m]

\* the body of the loop over the glyphs
GlyphErrors(glyph, cfg, fsys) ==
    LET rel == relativeToProject(glyph.filePath)
    IN  HeightErrors(glyph, rel, cfg) \o WidthErrors(glyph, rel, cfg)
            \o RowErrors(glyph, rel, cfg, 0) \o CharErrors(glyph, rel, fsys)
            \o CodepointErrors(glyph, rel)

\* the keys of codepointOccurrences in insertion order: the codepoints of
\* the glyphs by first occurrence, after those of cps
CodepointOrder(glyphs, cps) ==
    LET cpOf(i) == glyphs[i].header.codepoint
        isFirst(i) ==
            /\ cpOf(i).some
            /\ cpOf(i).val \notin Range(cps)
            /\ \A j \in 1..(i - 1) : ~(cpOf(j).some /\ cpOf(j).val = cpOf(i).val)
        firsts == SelectSeq([i \in 1..Len(glyphs) |-> i], isFirst)
    IN  cps \o [k \in 1..Len(firsts) |-> cpOf(firsts[k]).val]

\* codepointOccurrences.get(cp): the glyphs of a codepoint, in corpus order
Occurrences(glyphs, cp) ==
    SelectSeq(glyphs, LAMBDA g : g.header.codepoint.some /\ g.header.codepoint.val = cp)

\* IsDuplicated asking for more than two occurrences
MoreThanTwo(dups) == Len(dups) > 2

\* the test `dups.length > 1`
IsDuplicated(dups) == Len(dups) > 1

\* 6. no duplicate codepoints, over the keys cps
DuplicateErrors(glyphs, cps) ==
    Flatten([k \in 1..Len(cps) |->
        LET cp   == cps[k]
            dups == Occurrences(glyphs, cp)
        IN  IF IsDuplicated(dups)
            THEN <<Err(FileRef([i \in 1..Len(dups) |->
                                    relativeToProject(dups[i].filePath)]),
                       "duplicate", cp, 0, 0, 0, <<>>)>>
            ELSE <<>>])

\* codepointToGlyph.has(cp)
HasCodepoint(glyphs, cp) ==
    \E i \in 1..Len(glyphs) :
        glyphs[i].header.codepoint.some /\ glyphs[i].header.codepoint.val = cp

\* LastRequired of a loop that stops before ASCII_END
BeforeAsciiEnd == ASCII_END - 1

\* the last codepoint the completeness loop visits
LastRequired == ASCII_END

\* 7. ASCII completeness, from codepoint cp on; the character is printed
\* from U+0021 on (got = 1)
MissingErrors(glyphs, cp) ==
    Flatten([k \in 1..(LastRequired - cp + 1) |->
        LET c == cp + k - 1
        IN  IF ~HasCodepoint(glyphs, c)
            THEN <<Err(DirRef("glyphs/ascii/"), "missing", c, 0,
                       IF c >= 33 THEN 1 ELSE 0, 0, <<>>)>>
            ELSE <<>>])

\* validateGlyphs with the completeness check before the duplicate check
MissingBeforeDuplicates(glyphs, cfg, fsys) ==
    Flatten([i \in 1..Len(glyphs) |-> GlyphErrors(glyphs[i], cfg, fsys)])
        \o MissingErrors(glyphs, ASCII_START)
        \o DuplicateErrors(glyphs, CodepointOrder(glyphs, <<>>))

validateGlyphs(glyphs, cfg, fsys) ==
    Flatten([i \in 1..Len(glyphs) |-> GlyphErrors(glyphs[i], cfg, fsys)])
        \o DuplicateErrors(glyphs, CodepointOrder(glyphs, <<>>))
        \o MissingErrors(glyphs, ASCII_START)

----------------------------------------------------------------------------
(* The validation run: the glyph files are parsed and the corpus validated *)

\* a raster of the given number of rows and columns
Raster(rows, cols) == [r \in 1..rows |-> RasterLine(cols)]

\* a well-formed glyph file for the configured grid
ValidText == GlyphText(Raster(GlyphHeight, GlyphWidth))

\* a glyph file twice as wide as the configured grid
WideText == GlyphText(Raster(GlyphHeight, 2 * GlyphWidth))

\* a glyph file with too many rows, among them a row with a third symbol, a
\* blank row and a short row
BrokenText ==
    GlyphText(<< RasterLine(GlyphWidth) >> \o
              << [c \in 1..GlyphWidth |-> "o"], <<>> >> \o
              Raster(GlyphHeight - 1, GlyphWidth - 1))

\* the files glyphs/ascii/U+0020_*.glyph .. U+007E_*.glyph, numbered by
\* their codepoint
AsciiFile(cp) == [hdr |-> Header("ascii", Some(cp), None), content |-> ValidText]

\* the codepoints whose file may be missing from an otherwise complete
\* glyphs/ascii/, or be alone in it
SampleAscii == {ASCII_START, 65, ASCII_END}

AsciiSets ==
    {(ASCII_START..ASCII_END) \ m : m \in SUBSET SampleAscii} \cup SUBSET SampleAscii

\* the other files, by path, with the contents each may have; the paths are
\* numbered in the order of their strings:
\*   glyphs/latin-ext/LIG_equal_greater.glyph, glyphs/latin-ext/U+0041_A.glyph,
\*   glyphs/latin-ext/U+0041_A_alt.glyph, glyphs/latin-ext/U+00E9_eacute.glyph,
\*   glyphs/symbols/U+110000_beyond.glyph, glyphs/symbols/U+D800_surrogate.glyph
ExtraFiles ==
    200 :> {[hdr |-> Header("=>", None, Some(<<"equal", "greater">>)), content |-> c] :
               c \in {ValidText, WideText}} @@
    201 :> {[hdr |-> Header("A", Some(65), None), content |-> ValidText]} @@
    202 :> {[hdr |-> Header("A", Some(65), None), content |-> ValidText]} @@
    203 :> {[hdr |-> Header("eacute", Some(233), None), content |-> c] :
               c \in {ValidText, BrokenText}} @@
    204 :> {[hdr |-> Header("beyond", Some(1114112), None), content |-> ValidText]} @@
    205 :> {[hdr |-> Header("surrogate", Some(55296), None), content |-> ValidText]}

ExtraSystems ==
    UNION {{f \in [present -> UNION {ExtraFiles[rel] : rel \in present}] :
               \A rel \in present : f[rel] \in ExtraFiles[rel]} :
           present \in SUBSET DOMAIN ExtraFiles}

ValidateFileSystems ==
    {[cp \in ascii |-> AsciiFile(cp)] @@ extra :
        ascii \in AsciiSets, extra \in ExtraSystems}

InitValidate ==
    /\ pc = "files"
    /\ fs \in ValidateFileSystems
    /\ config = Config(GlyphWidth, GlyphHeight, GlyphHeight - 1, 1)
    /\ parsedGlyphs = <<>>
    /\ results = <<>>
    /\ errors = <<>>
    /\ grid = <<>> /\ rects = <<>> /\ pixelSize = 0 /\ baselineRow = 0 /\ path = <<>>
    /\ NoBold
    /\ NoWeights
    /\ NoGate
    /\ NoParse
    /\ NoFont
    /\ NoHeader
    /\ NoDev

\* the rest of main of the validator: the errors are collected and the
\* process exits with 0 when there is none, with 1 otherwise
ValidateGlyphs ==
    /\ pc \in {"parsed", "unlinked"}
    /\ errors' = validateGlyphs(parsedGlyphs, config, fs)
    /\ exitCode' = Some(IF Len(errors') = 0 THEN 0 ELSE 1)
    /\ pc' = "validated"
    /\ UNCHANGED <<fs, config, parsedGlyphs, results, written>>
    /\ UNCHANGED glyphVars
    /\ UNCHANGED boldVars
    /\ UNCHANGED weightVars
    /\ UNCHANGED parseVars
    /\ UNCHANGED fontVars
    /\ UNCHANGED headerVars
    /\ UNCHANGED devVars

NextValidate == ParseAllGlyphs \/ ValidateGlyphs

SpecValidate == InitValidate /\ [][NextValidate]_vars

----------------------------------------------------------------------------
(* The validation run over a sparse glyphs/ascii/ and malformed files, a
   file of which may disappear before the validator re-reads it *)

\* a glyph file whose first row is too long and has a third symbol, with a
\* row too many
MalformedText ==
    GlyphText(<< [c \in 1..(GlyphWidth + 1) |-> IF c = 1 THEN "x" ELSE "X"] >> \o
              Raster(GlyphHeight, GlyphWidth))

\* the other files of the run: ExtraFiles, and a malformed content for
\* glyphs/symbols/U+110000_beyond.glyph
MalformedFiles ==
    [rel \in DOMAIN ExtraFiles |->
        IF rel = 204
        THEN ExtraFiles[rel] \cup
                 {[hdr |-> Header("beyond", Some(1114112), None), content |-> MalformedText]}
        ELSE ExtraFiles[rel]]

MalformedSystems ==
    UNION {{f \in [present -> UNION {MalformedFiles[rel] : rel \in present}] :
               \A rel \in present : f[rel] \in MalformedFiles[rel]} :
           present \in SUBSET DOMAIN MalformedFiles}

ChecksFileSystems ==
    {[cp \in ascii |-> AsciiFile(cp)] @@ extra :
        ascii \in SUBSET SampleAscii, extra \in MalformedSystems}

InitChecks ==
    /\ pc = "files"
    /\ fs \in ChecksFileSystems
    /\ config = Config(GlyphWidth, GlyphHeight, GlyphHeight - 1, 1)
    /\ parsedGlyphs = <<>>
    /\ results = <<>>
    /\ errors = <<>>
    /\ grid = <<>> /\ rects = <<>> /\ pixelSize = 0 /\ baselineRow = 0 /\ path = <<>>
    /\ NoBold
    /\ NoWeights
    /\ NoGate
    /\ NoParse
    /\ NoFont
    /\ NoHeader
    /\ NoDev

\* the files that may disappear between the parse and the re-read of the
\* validator: glyphs/latin-ext/U+0041_A.glyph, glyphs/latin-ext/U+00E9_eacute.glyph
Unlinkable == {201, 203}

\* a file is removed after it was parsed: re-reading it throws
Unlink ==
    /\ pc = "parsed"
    /\ \E rel \in DOMAIN fs \cap Unlinkable :
          fs' = [r \in DOMAIN fs \ {rel} |-> fs[r]]
    /\ pc' = "unlinked"
    /\ UNCHANGED <<config, parsedGlyphs, results, errors>>
    /\ UNCHANGED glyphVars
    /\ UNCHANGED boldVars
    /\ UNCHANGED weightVars
    /\ UNCHANGED gateVars
    /\ UNCHANGED parseVars
    /\ UNCHANGED fontVars
    /\ UNCHANGED headerVars
    /\ UNCHANGED devVars

NextChecks == ParseAllGlyphs \/ Unlink \/ ValidateGlyphs

SpecChecks == InitChecks /\ [][NextChecks]_vars

----------------------------------------------------------------------------
(* auto-bold.ts.  Arrays are objects: a grid is an array of references to
   its row arrays.  heap[a] is the row array at address a, and a grid is the
   sequence of the addresses of its rows. *)

\* `[...grid]`: an outer array sharing the row arrays of the source
SharedRows(h, g, r, out) == [heap |-> h, bold |-> g]

\* grid.map((row) => [...row]): every row is copied into a new array
RECURSIVE CopyRows(_, _, _, _)
CopyRows(h, g, r, out) ==
    IF r > Len(g) THEN [heap |-> h, bold |-> out]
    ELSE CopyRows(Append(h, h[g[r]]), g, r + 1, Append(out, Len(h) + 1))

\* SourceCell reading the cell of the result
BoldCell(h, g, b, row, col) == h[b[row + 1]][col + 1]

\* grid[row][col] of the test of the inner loop
SourceCell(h, g, b, row, col) == h[g[row + 1]][col + 1]

\* the inner loop of autoBold over the columns of one row, from col on
RECURSIVE BoldCols(_, _, _, _, _)
BoldCols(h, g, b, row, col) ==
    LET cols == Len(h[g[row + 1]])
    IN  IF col >= cols THEN h
        ELSE IF SourceCell(h, g, b, row, col) /\ col + 1 < cols
             THEN BoldCols([h EXCEPT ![b[row + 1]][col + 2] = TRUE], g, b, row, col + 1)
             ELSE BoldCols(h, g, b, row, col + 1)

\* the outer loop of autoBold over the rows, from row on
RECURSIVE BoldRows(_, _, _, _)
BoldRows(h, g, b, row) ==
    IF row >= Len(g) THEN h
    ELSE BoldRows(BoldCols(h, g, b, row, 0), g, b, row + 1)

\* autoBold(grid) on heap h: the heap after the call and the returned array
autoBold(h, g) ==
    IF Len(g) = 0 THEN [heap |-> h, bold |-> <<>>]
    ELSE LET copy == CopyRows(h, g, 1, <<>>)
         IN  [heap |-> BoldRows(copy.heap, g, copy.bold, 0), bold |-> copy.bold]

\* the cells of the grid whose rows are at the given addresses
Deref(h, rows) == [r \in 1..Len(rows) |-> h[rows[r]]]

\* the grid autoBold returns for a grid given by value
autoBoldGrid(g) ==
    LET call == autoBold(g, [r \in 1..Len(g) |-> r])
    IN  Deref(call.heap, call.bold)

\* the grid of ROWS x COLS cells with the single filled cell (row, col)
CellGrid(row, col) ==
    [r \in 1..ROWS |-> [c \in 1..COLS |-> r = row + 1 /\ c = col + 1]]

BoldGrids == Grids \cup {CellGrid(5, 7), CellGrid(5, 0)}

\* a grid as parseGrid leaves it in memory: one array per row
InitBold ==
    /\ pc = "grid"
    /\ grid \in BoldGrids
    /\ heap = grid
    /\ gridRows = [r \in 1..Len(grid) |-> r]
    /\ bold = <<>>
    /\ rects = <<>> /\ pixelSize = 0 /\ baselineRow = 0 /\ path = <<>>
    /\ NoCorpus
    /\ NoWeights
    /\ NoGate
    /\ NoParse
    /\ NoFont
    /\ NoHeader
    /\ NoDev

AutoBold ==
    /\ pc = "grid"
    /\ LET call == autoBold(heap, gridRows)
       IN  heap' = call.heap /\ bold' = call.bold
    /\ pc' = "bold"
    /\ UNCHANGED <<gridRows, grid, rects, pixelSize, baselineRow, path>>
    /\ UNCHANGED corpusVars
    /\ UNCHANGED weightVars
    /\ UNCHANGED gateVars
    /\ UNCHANGED parseVars
    /\ UNCHANGED fontVars
    /\ UNCHANGED headerVars
    /\ UNCHANGED devVars

NextBold == AutoBold

SpecBold == InitBold /\ [][NextBold]_vars

----------------------------------------------------------------------------
(* build-font.ts, the build of two weights: steps 3 and 4 of main *)

\* the identifier of a glyph in boldKeys: `cp:${codepoint}` when it has a
\* codepoint, `lig:${label}` when it has components, none otherwise
KeyOf(header) ==
    IF header.codepoint.some
    THEN Some([kind |-> "cp", cp |-> header.codepoint.val, label |-> ""])
    ELSE IF header.components.some
         THEN Some([kind |-> "lig", cp |-> 0, label |-> header.label])
         ELSE None

\* the set main fills from the hand-authored bold glyphs
BoldKeys(glyphs) ==
    {KeyOf(glyphs[i].header).val :
        i \in {j \in 1..Len(glyphs) : KeyOf(glyphs[j].header).some}}

\* HasBoldKey of a build that derives a bold variant for every key
NeverHasBoldKey(boldKeys, key) == FALSE

\* boldKeys.has(key)
HasBoldKey(boldKeys, key) == key \in boldKeys

\* the record main derives from a regular glyph
BoldParsed(g) ==
    [header   |-> [g.header EXCEPT !.weight = "bold"],
     grid     |-> autoBoldGrid(g.grid),
     filePath |-> g.filePath,
     width    |-> g.width,
     height   |-> g.height]

\* the loop of step 4 over the regular glyphs, from index i on
RECURSIVE DeriveFrom(_, _, _, _)
DeriveFrom(regulars, boldKeys, i, bolds) ==
    IF i > Len(regulars) THEN bolds
    ELSE LET g   == regulars[i]
             key == KeyOf(g.header)
         IN  IF key.some /\ ~HasBoldKey(boldKeys, key.val)
             THEN DeriveFrom(regulars, boldKeys, i + 1, Append(bolds, BoldParsed(g)))
             ELSE DeriveFrom(regulars, boldKeys, i + 1, bolds)

\* step 3: the glyphs of one side of the separation by weight
IsBold(g) == g.header.weight = "bold"
IsRegular(g) == ~IsBold(g)

BoldHeader(label, codepoint, components) ==
    [Header(label, codepoint, components) EXCEPT !.weight = "bold"]

\* the files of the run, by path; the paths are numbered in the order of
\* their strings:
\*   glyphs/ascii/U+0041_A.glyph, glyphs/ascii/U+0042_B.glyph,
\*   glyphs/latin-ext/U+0041_A_bold.glyph, glyphs/latin-ext/U+0043_C_bold.glyph,
\*   glyphs/latin-ext/logo.glyph,
\*   glyphs/ligatures/LIG_equal_greater.glyph,
\*   glyphs/ligatures/LIG_equal_greater_bold.glyph,
\*   glyphs/ligatures/arrow_bold.glyph ("# =>", weight bold, no components)
WeightFiles ==
    65  :> [hdr |-> Header("A", Some(65), None), content |-> GlyphText(<<RasterLine(3)>>)] @@
    66  :> [hdr |-> Header("B", Some(66), None), content |-> GlyphText(<<RasterLine(2)>>)] @@
    165 :> [hdr |-> BoldHeader("A", Some(65), None), content |-> GlyphText(<<RasterLine(1)>>)] @@
    167 :> [hdr |-> BoldHeader("C", Some(67), None), content |-> GlyphText(<<RasterLine(2)>>)] @@
    300 :> [hdr |-> Header("logo", None, None), content |-> GlyphText(<<RasterLine(2)>>)] @@
    301 :> [hdr |-> Header("=>", None, Some(<<"equal", "greater">>)),
            content |-> GlyphText(<<RasterLine(4)>>)] @@
    401 :> [hdr |-> BoldHeader("=>", None, Some(<<"equal", "greater">>)),
            content |-> GlyphText(<<RasterLine(1)>>)] @@
    402 :> [hdr |-> BoldHeader("=>", None, None), content |-> GlyphText(<<RasterLine(1)>>)]

WeightFileSystems ==
    {[rel \in present |-> WeightFiles[rel]] : present \in SUBSET DOMAIN WeightFiles}

InitWeights ==
    /\ pc = "files"
    /\ fs \in WeightFileSystems
    /\ config = Config(GlyphWidth, 1, 1, 1)
    /\ parsedGlyphs = <<>>
    /\ results = <<>>
    /\ errors = <<>>
    /\ grid = <<>> /\ rects = <<>> /\ pixelSize = 0 /\ baselineRow = 0 /\ path = <<>>
    /\ NoBold
    /\ NoWeights
    /\ NoGate
    /\ NoParse
    /\ NoFont
    /\ NoHeader
    /\ NoDev

\* steps 3 and 4 of main: separate by weight, derive the missing bold glyphs
DeriveBold ==
    /\ pc = "parsed"
    /\ regularGlyphs' = SelectSeq(parsedGlyphs, IsRegular)
    /\ LET handAuthored == SelectSeq(parsedGlyphs, IsBold)
       IN  boldGlyphs' = DeriveFrom(SelectSeq(parsedGlyphs, IsRegular),
                                    BoldKeys(handAuthored), 1, handAuthored)
    /\ pc' = "weights"
    /\ UNCHANGED <<fs, config, parsedGlyphs, results, errors>>
    /\ UNCHANGED glyphVars
    /\ UNCHANGED boldVars
    /\ UNCHANGED gateVars
    /\ UNCHANGED parseVars
    /\ UNCHANGED fontVars
    /\ UNCHANGED headerVars
    /\ UNCHANGED devVars

NextWeights == ParseAllGlyphs \/ DeriveBold

SpecWeights == InitWeights /\ [][NextWeights]_vars

----------------------------------------------------------------------------
(* The ways a font gets built: `tsx src/build-font.ts`, whose main parses,
   builds and writes, and `npm run build`, which runs the validator first and
   build-font.ts when the validator exited with 0 *)

\* the files main of build-font.ts writes
FontFiles == {"build/Sergamon.ttf", "build/Sergamon.woff2", "site/fonts/Sergamon.woff2"}

\* glyphs/ascii/ complete or lacking its first or last file, with or without
\* the files glyphs/latin-ext/U+00E9_eacute.glyph,
\* glyphs/symbols/U+110000_beyond.glyph and glyphs/symbols/U+D800_surrogate.glyph
GateFileSystems ==
    {[cp \in ascii |-> AsciiFile(cp)] @@ extra :
        ascii \in {(ASCII_START..ASCII_END) \ m : m \in SUBSET {ASCII_START, ASCII_END}},
        extra \in {f \in ExtraSystems : DOMAIN f \subseteq {203, 204, 205}}}

InitGate ==
    /\ pc = "files"
    /\ fs \in GateFileSystems
    /\ config = Config(GlyphWidth, GlyphHeight, GlyphHeight - 1, 1)
    /\ parsedGlyphs = <<>>
    /\ results = <<>>
    /\ errors = <<>>
    /\ grid = <<>> /\ rects = <<>> /\ pixelSize = 0 /\ baselineRow = 0 /\ path = <<>>
    /\ NoBold
    /\ NoWeights
    /\ NoGate
    /\ NoParse
    /\ NoFont
    /\ NoHeader
    /\ NoDev

\* `npm run validate && tsx src/build-font.ts`: build-font.ts starts when
\* the validator has exited with 0
NpmRunBuild ==
    /\ pc = "validated"
    /\ exitCode = Some(0)
    /\ pc' = "files"
    /\ parsedGlyphs' = <<>>
    /\ UNCHANGED <<fs, config, results, errors>>
    /\ UNCHANGED glyphVars
    /\ UNCHANGED boldVars
    /\ UNCHANGED weightVars
    /\ UNCHANGED gateVars
    /\ UNCHANGED parseVars
    /\ UNCHANGED fontVars
    /\ UNCHANGED headerVars
    /\ UNCHANGED devVars

\* steps 4 to 8 of main of build-font.ts: the font is assembled and written
WriteFonts ==
    /\ pc = "built"
    /\ written' = FontFiles
    /\ pc' = "written"
    /\ UNCHANGED <<fs, config, parsedGlyphs, results, errors, exitCode>>
    /\ UNCHANGED glyphVars
    /\ UNCHANGED boldVars
    /\ UNCHANGED weightVars
    /\ UNCHANGED parseVars
    /\ UNCHANGED fontVars
    /\ UNCHANGED headerVars
    /\ UNCHANGED devVars

NextGate == ParseAllGlyphs \/ ValidateGlyphs \/ NpmRunBuild \/ BuildGlyphs \/ WriteFonts

SpecGate == InitGate /\ [][NextGate]_vars

----------------------------------------------------------------------------
(* parseAllGlyphs step by step: the directories are listed, every parseGlyph
   is started, the reads complete in any order, and Promise.all settles *)

\* the directory entries of the run, by path; the paths are numbered in the
\* order of their strings:
\*   glyphs/ascii/U+0041_A.glyph, glyphs/ascii/U+0042_B.glyph,
\*   glyphs/ascii/U+0042_B.glyph.bak, glyphs/latin-ext/U+00E9_eacute.glyph,
\*   glyphs/ligatures/LIG_equal_greater.glyph, glyphs/private/U+E000_logo.glyph
Entries ==
    11 :> [dir |-> "glyphs/ascii", ext |-> ".glyph"] @@
    12 :> [dir |-> "glyphs/ascii", ext |-> ".glyph"] @@
    13 :> [dir |-> "glyphs/ascii", ext |-> ".bak"] @@
    21 :> [dir |-> "glyphs/latin-ext", ext |-> ".glyph"] @@
    31 :> [dir |-> "glyphs/ligatures", ext |-> ".glyph"] @@
    41 :> [dir |-> "glyphs/private", ext |-> ".glyph"]

\* the directories handed to parseAllGlyphs
GLYPH_DIRS == <<"glyphs/ascii", "glyphs/latin-ext", "glyphs/ligatures">>

\* fs.readdir(dir): the entries of the directory, none when it does not exist
readdir(fsys, dir) ==
    LET entries == {rel \in DOMAIN fsys : Entries[rel].dir = dir}
    IN  IF entries = {} THEN None ELSE Some(entries)

\* entry.endsWith(".glyph")
EndsWithGlyph(rel) == Entries[rel].ext = ".glyph"

\* the loop over the directories: the paths pushed to glyphFiles
FoundIn(fsys, glyphDirs) ==
    UNION {LET entries == readdir(fsys, glyphDirs[d])
           IN  IF entries.some THEN {rel \in entries.val : EndsWithGlyph(rel)} ELSE {} :
           d \in 1..Len(glyphDirs)}

\* a promise: pending, fulfilled with a value, or rejected
Pending == [state |-> "pending"]
Fulfilled(v) == [state |-> "fulfilled", value |-> v]
Rejected == [state |-> "rejected"]

\* fs.readFile and the rest of parseGlyph: the promise of parseGlyph settles
Settle(fsys, rel) ==
    IF rel \in DOMAIN fsys THEN Fulfilled(parseGlyph(rel, fsys[rel])) ELSE Rejected

\* Promise.all: rejected with the first rejection, fulfilled with the values
\* in the order of the promises once all are fulfilled
PromiseAll(ps) ==
    IF \E i \in 1..Len(ps) : ps[i].state = "rejected" THEN Rejected
    ELSE IF \A i \in 1..Len(ps) : ps[i].state = "fulfilled"
         THEN Fulfilled([i \in 1..Len(ps) |-> ps[i].value])
         ELSE Pending

ParseHeaders ==
    11 :> Header("A", Some(65), None) @@
    12 :> Header("B", Some(66), None) @@
    13 :> Header("B", Some(66), None) @@
    21 :> Header("eacute", Some(233), None) @@
    31 :> Header("=>", None, Some(<<"equal", "greater">>)) @@
    41 :> Header("logo", Some(57344), None)

ParseFileSystems ==
    {[rel \in present |-> [hdr |-> ParseHeaders[rel], content |-> ValidText]] :
        present \in SUBSET DOMAIN Entries}

InitParse ==
    /\ pc = "files"
    /\ fs \in ParseFileSystems
    /\ config = Config(GlyphWidth, GlyphHeight, GlyphHeight - 1, 1)
    /\ parsedGlyphs = <<>>
    /\ results = <<>>
    /\ errors = <<>>
    /\ grid = <<>> /\ rects = <<>> /\ pixelSize = 0 /\ baselineRow = 0 /\ path = <<>>
    /\ NoBold
    /\ NoWeights
    /\ NoGate
    /\ NoParse
    /\ NoFont
    /\ NoHeader
    /\ NoDev

\* parseAllGlyphs up to the call of Promise.all: the directories are listed,
\* the paths sorted and parseGlyph started for each; with no path
\* Promise.all is fulfilled at once
ReadDirs ==
    /\ pc = "files"
    /\ glyphFiles' = SortPaths(FoundIn(fs, GLYPH_DIRS))
    /\ promises' = [i \in 1..Len(glyphFiles') |-> Pending]
    /\ pc' = IF Len(glyphFiles') = 0 THEN "parsed" ELSE "reading"
    /\ UNCHANGED <<fs, config, parsedGlyphs, results, errors>>
    /\ UNCHANGED glyphVars
    /\ UNCHANGED boldVars
    /\ UNCHANGED weightVars
    /\ UNCHANGED gateVars
    /\ UNCHANGED fontVars
    /\ UNCHANGED headerVars
    /\ UNCHANGED devVars

\* the files that may disappear while they are being read:
\* glyphs/ascii/U+0042_B.glyph, glyphs/latin-ext/U+00E9_eacute.glyph
Removable == {12, 21}

\* a file whose read is pending is removed: its read will fail
RemoveFile ==
    /\ pc \in {"reading", "rejected"}
    /\ \E i \in 1..Len(glyphFiles) :
          /\ promises[i] = Pending
          /\ glyphFiles[i] \in DOMAIN fs \cap Removable
          /\ fs' = [r \in DOMAIN fs \ {glyphFiles[i]} |-> fs[r]]
    /\ UNCHANGED <<pc, config, parsedGlyphs, results, errors>>
    /\ UNCHANGED glyphVars
    /\ UNCHANGED boldVars
    /\ UNCHANGED weightVars
    /\ UNCHANGED gateVars
    /\ UNCHANGED parseVars
    /\ UNCHANGED fontVars
    /\ UNCHANGED headerVars
    /\ UNCHANGED devVars

\* the read of one file completes and its parseGlyph settles; Promise.all
\* settles with it when it is the first to reject or the last to fulfil, and
\* parseAllGlyphs returns the array or throws
ReadFile ==
    /\ pc \in {"reading", "rejected"}
    /\ \E i \in 1..Len(glyphFiles) :
          /\ promises[i] = Pending
          /\ promises' = [promises EXCEPT ![i] = Settle(fs, glyphFiles[i])]
    /\ LET all == PromiseAll(promises')
       IN  /\ pc' = CASE all.state = "rejected" -> "rejected"
                      [] all.state = "fulfilled" -> "parsed"
                      [] OTHER -> pc
           /\ parsedGlyphs' = IF all.state = "fulfilled" THEN all.value ELSE parsedGlyphs
    /\ UNCHANGED <<fs, config, results, errors, glyphFiles>>
    /\ UNCHANGED glyphVars
    /\ UNCHANGED boldVars
    /\ UNCHANGED weightVars
    /\ UNCHANGED gateVars
    /\ UNCHANGED fontVars
    /\ UNCHANGED headerVars
    /\ UNCHANGED devVars

NextParse == ReadDirs \/ RemoveFile \/ ReadFile

SpecParse == InitParse /\ [][NextParse]_vars

----------------------------------------------------------------------------
(* The font run: the glyphs are built, the font assembled and the ligature
   substitutions registered *)

\* the '.notdef' glyph main creates for index 0
NotdefGlyph(cfg) ==
    [name         |-> ".notdef",
     unicode      |-> Some(0),
     advanceWidth |-> cfg.metrics.pixelSize * cfg.grid.width,
     path         |-> <<>>]

\* [notdefGlyph, ...builtGlyphs.map((bg) => bg.glyph)]: index i of the source
\* is position i + 1 of the sequence
GlyphArray(builtGlyphs, cfg) ==
    <<NotdefGlyph(cfg)>> \o [i \in 1..Len(builtGlyphs) |-> builtGlyphs[i].glyph]

\* font.charToGlyphIndex(String.fromCodePoint(cp)): the index of the first
\* glyph of the font that carries the codepoint, 0 when none does
charToGlyphIndex(glyphs, cp) ==
    LET hits == {i \in 1..Len(glyphs) : glyphs[i].unicode.some /\ glyphs[i].unicode.val = cp}
    IN  IF hits = {} THEN 0
        ELSE (CHOOSE i \in hits : \A j \in hits : i <= j) - 1

\* the inner loop of registerLigatures: the glyph indices of the components,
\* undefined as soon as one is 0
SubIndices(glyphs, cps) ==
    LET idx == [k \in 1..Len(cps) |-> charToGlyphIndex(glyphs, cps[k])]
    IN  IF \E k \in 1..Len(cps) : idx[k] = 0 THEN None ELSE Some(idx)

\* the console.warn of the inner loop: one warning, for the first codepoint
\* the font does not carry
CmapWarnings(glyphs, bg) ==
    LET cps     == bg.ligatureComponents.val
        missing == SelectSeq(cps, LAMBDA cp : charToGlyphIndex(glyphs, cp) = 0)
    IN  IF Len(missing) = 0 THEN <<>>
        ELSE <<[kind |-> "not found in font cmap", codepoint |-> Head(missing),
                ligature |-> bg.glyph.name]>>

\* the first loop of registerLigatures: a rule for every built glyph with
\* resolved components that the font carries; by is i + 1 for index i of the
\* source, the position of the glyph in builtGlyphs counted from 1
Ligatures(glyphs, builtGlyphs) ==
    LET isValid(i) == /\ builtGlyphs[i].ligatureComponents.some
                      /\ SubIndices(glyphs, builtGlyphs[i].ligatureComponents.val).some
        valid == SelectSeq([i \in 1..Len(builtGlyphs) |-> i], isValid)
    IN  [k \in 1..Len(valid) |->
            [sub |-> SubIndices(glyphs, builtGlyphs[valid[k]].ligatureComponents.val).val,
             by  |-> valid[k]]]

\* the rules in the order of the first loop
KeepOrder(ligatures) == ligatures

\* ligatures.sort((a, b) => b.sub.length - a.sub.length): longer first, the
\* rules of one length in the order they had
SortLongestFirst(ligatures) ==
    LET lens    == {Len(ligatures[k].sub) : k \in 1..Len(ligatures)}
        longest == IF lens = {} THEN 0 ELSE CHOOSE m \in lens : \A n \in lens : n <= m
    IN  Flatten([k \in 1..longest |->
            SelectSeq(ligatures, LAMBDA l : Len(l.sub) = longest - k + 1)])

\* registerLigatures: the rules added to 'liga', in order
registerLigatures(glyphs, builtGlyphs) ==
    SortLongestFirst(Ligatures(glyphs, builtGlyphs))

\* the warnings of registerLigatures, glyph by glyph
RegisterWarnings(glyphs, builtGlyphs) ==
    Flatten([i \in 1..Len(builtGlyphs) |->
        IF builtGlyphs[i].ligatureComponents.some
        THEN CmapWarnings(glyphs, builtGlyphs[i])
        ELSE <<>>])

\* the header fields of the files of the font run, by path; the paths are
\* numbered in the order of their strings:
\*   glyphs/ascii/U+002D_hyphen.glyph, glyphs/ascii/U+003D_equal.glyph,
\*   glyphs/ascii/U+003E_greater.glyph,
\*   glyphs/ligatures/LIG_equal_equal.glyph,
\*   glyphs/ligatures/LIG_equal_equal_equal.glyph,
\*   glyphs/ligatures/LIG_equal_greater.glyph,
\*   glyphs/ligatures/LIG_hyphen_greater.glyph
FontHeaders ==
    45  :> Header("hyphen", Some(45), None) @@
    61  :> Header("equal", Some(61), None) @@
    62  :> Header("greater", Some(62), None) @@
    301 :> Header("==", None, Some(<<"equal", "equal">>)) @@
    302 :> Header("===", None, Some(<<"equal", "equal", "equal">>)) @@
    303 :> Header("=>", None, Some(<<"equal", "greater">>)) @@
    304 :> Header("->", None, Some(<<"hyphen", "greater">>))

FontFileSystems ==
    {[rel \in present |-> [hdr |-> FontHeaders[rel], content |-> ValidText]] :
        present \in SUBSET DOMAIN FontHeaders}

InitFont ==
    /\ pc = "files"
    /\ fs \in FontFileSystems
    /\ config = Config(GlyphWidth, GlyphHeight, GlyphHeight - 1, 1)
    /\ parsedGlyphs = <<>>
    /\ results = <<>>
    /\ errors = <<>>
    /\ grid = <<>> /\ rects = <<>> /\ pixelSize = 0 /\ baselineRow = 0 /\ path = <<>>
    /\ NoBold
    /\ NoWeights
    /\ NoGate
    /\ NoParse
    /\ NoFont
    /\ NoHeader
    /\ NoDev

\* steps 5 to 7 of main: the glyph array is assembled with .notdef first,
\* the font created from it and the ligatures registered
RegisterLigatures ==
    /\ pc = "built"
    /\ glyphArray' = GlyphArray(results, config)
    /\ liga' = registerLigatures(glyphArray', results)
    /\ warnings' = warnings \o RegisterWarnings(glyphArray', results)
    /\ pc' = "registered"
    /\ UNCHANGED corpusVars
    /\ UNCHANGED glyphVars
    /\ UNCHANGED boldVars
    /\ UNCHANGED weightVars
    /\ UNCHANGED gateVars
    /\ UNCHANGED parseVars
    /\ UNCHANGED headerVars
    /\ UNCHANGED devVars

NextFont == ParseAllGlyphs \/ BuildGlyphs \/ RegisterLigatures

SpecFont == InitFont /\ [][NextFont]_vars

----------------------------------------------------------------------------
(* The line scan run: one file of any lines is parsed and validated *)

\* the lines a file is made of: a comment, an empty line, a line of one
\* space, and two raster lines
ScanLineKinds == {<<"#">>, <<>>, <<" ">>, <<"X", ".">>, <<".", "X">>}

\* the sequences of at most n lines
LineSeqs(n) == UNION {[1..k -> ScanLineKinds] : k \in 0..n}

\* the text without its final newline
Chomp(text) == IF Len(text) = 0 THEN text ELSE SubSeq(text, 1, Len(text) - 1)

\* the texts of the lines, with or without a final newline
ScanTexts ==
    {JoinLines(ls) : ls \in LineSeqs(MaxScanLines)} \cup
    {Chomp(JoinLines(ls)) : ls \in LineSeqs(MaxScanLines)}

\* the file of the run: glyphs/ascii/U+0041_A.glyph
ScanFile == 65

InitScan ==
    /\ pc = "files"
    /\ \E text \in ScanTexts :
          fs = (ScanFile :> [hdr |-> Header("A", Some(65), None), content |-> text])
    /\ config = Config(GlyphWidth, GlyphHeight, GlyphHeight - 1, 1)
    /\ parsedGlyphs = <<>>
    /\ results = <<>>
    /\ errors = <<>>
    /\ grid = <<>> /\ rects = <<>> /\ pixelSize = 0 /\ baselineRow = 0 /\ path = <<>>
    /\ NoBold
    /\ NoWeights
    /\ NoGate
    /\ NoParse
    /\ NoFont
    /\ NoHeader
    /\ NoDev

NextScan == ParseAllGlyphs \/ ValidateGlyphs

SpecScan == InitScan /\ [][NextScan]_vars

----------------------------------------------------------------------------
(* The header run: parseHeader is called on header lines and a file name *)

\* the header lines of the run:
\*   "#", "# weight: bold", "# components: equal greater", "# A (U+0041)",
\*   "# => (ligature)", "# note"
SampleHeaderLines ==
    {EmptyLine, WeightLine("bold"), ComponentsLine(<<"equal", "greater">>),
     CodepointLabel("A", 65), LigatureLabel("=>"), PlainLabel("note")}

\* the file names of the run:
\*   "U+0042_B.glyph", "U+42_B.glyph", "LIG_equal_greater.glyph"
SampleFileNames ==
    {FileName(TRUE, 4, 66, "B"), FileName(TRUE, 2, 66, "B"),
     FileName(FALSE, 0, 0, "equal_greater")}

InitHeader ==
    /\ pc = "lines"
    /\ rawHeader \in UNION {[1..n -> SampleHeaderLines] : n \in 0..MaxHeaderLines}
    /\ \E name \in SampleFileNames : headerFile = Some(name)
    /\ parsedHeader = None
    /\ NoCorpus
    /\ grid = <<>> /\ rects = <<>> /\ pixelSize = 0 /\ baselineRow = 0 /\ path = <<>>
    /\ NoBold
    /\ NoWeights
    /\ NoGate
    /\ NoParse
    /\ NoFont
    /\ NoDev

ParseHeader ==
    /\ pc = "lines"
    /\ parsedHeader' = Some(parseHeaderLines(rawHeader, headerFile.val))
    /\ pc' = "header"
    /\ UNCHANGED <<rawHeader, headerFile>>
    /\ UNCHANGED corpusVars
    /\ UNCHANGED glyphVars
    /\ UNCHANGED boldVars
    /\ UNCHANGED weightVars
    /\ UNCHANGED gateVars
    /\ UNCHANGED parseVars
    /\ UNCHANGED fontVars
    /\ UNCHANGED devVars

NextHeader == ParseHeader

SpecHeader == InitHeader /\ [][NextHeader]_vars

----------------------------------------------------------------------------
(* The repeated validation run: the corpus is validated twice *)

\* the files of the run besides glyphs/ascii/, by path, with the contents
\* each may have; the paths are numbered in the order of their strings:
\*   glyphs/latin-ext/U+00E9_eacute.glyph, glyphs/latin-ext/a_copy.glyph,
\*   glyphs/latin-ext/e_copy.glyph, glyphs/latin-ext/z_copy.glyph,
\*   glyphs/symbols/U+110000_beyond.glyph
RepeatFiles ==
    201 :> {[hdr |-> Header("eacute", Some(233), None), content |-> c] :
               c \in {ValidText, BrokenText}} @@
    202 :> {[hdr |-> Header("A", Some(65), None), content |-> ValidText]} @@
    203 :> {[hdr |-> Header("eacute", Some(233), None), content |-> ValidText]} @@
    204 :> {[hdr |-> Header("A", Some(65), None), content |-> ValidText]} @@
    205 :> {[hdr |-> Header("beyond", Some(1114112), None), content |-> MalformedText]}

RepeatSystems ==
    UNION {{f \in [present -> UNION {RepeatFiles[rel] : rel \in present}] :
               \A rel \in present : f[rel] \in RepeatFiles[rel]} :
           present \in SUBSET DOMAIN RepeatFiles}

RepeatFileSystems ==
    {[cp \in ascii |-> AsciiFile(cp)] @@ extra :
        ascii \in SUBSET SampleAscii, extra \in RepeatSystems}

InitRepeat ==
    /\ pc = "files"
    /\ fs \in RepeatFileSystems
    /\ config = Config(GlyphWidth, GlyphHeight, GlyphHeight - 1, 1)
    /\ parsedGlyphs = <<>>
    /\ results = <<>>
    /\ errors = <<>>
    /\ grid = <<>> /\ rects = <<>> /\ pixelSize = 0 /\ baselineRow = 0 /\ path = <<>>
    /\ NoBold
    /\ NoWeights
    /\ NoGate
    /\ NoParse
    /\ NoFont
    /\ NoHeader
    /\ NoDev

\* validateGlyphs is called a second time on the same glyphs, configuration
\* and files
ValidateAgain ==
    /\ pc = "validated"
    /\ errors' = validateGlyphs(parsedGlyphs, config, fs)
    /\ exitCode' = Some(IF Len(errors') = 0 THEN 0 ELSE 1)
    /\ pc' = "revalidated"
    /\ UNCHANGED <<fs, config, parsedGlyphs, results, written>>
    /\ UNCHANGED glyphVars
    /\ UNCHANGED boldVars
    /\ UNCHANGED weightVars
    /\ UNCHANGED parseVars
    /\ UNCHANGED fontVars
    /\ UNCHANGED headerVars
    /\ UNCHANGED devVars

NextRepeat == ParseAllGlyphs \/ Unlink \/ ValidateGlyphs \/ ValidateAgain

SpecRepeat == InitRepeat /\ [][NextRepeat]_vars

----------------------------------------------------------------------------
(* The clean validation run: a complete or nearly complete glyphs/ascii/ and
   a few files that are well-formed or break one rule each *)

\* a glyph file of the configured height whose last row is a cell short
JaggedText ==
    GlyphText(Raster(GlyphHeight - 1, GlyphWidth) \o <<RasterLine(GlyphWidth - 1)>>)

\* a glyph file a row short
ShortText == GlyphText(Raster(GlyphHeight - 1, GlyphWidth))

\* a glyph file without a raster
EmptyText == GlyphText(<<>>)

\* the files of the run besides glyphs/ascii/, by path, with the contents
\* each may have:
\*   glyphs/latin-ext/LIG_equal_greater.glyph, glyphs/latin-ext/U+0041_A_alt.glyph,
\*   glyphs/latin-ext/U+00E9_eacute.glyph
CleanFiles ==
    200 :> {[hdr |-> Header("=>", None, Some(<<"equal", "greater">>)), content |-> c] :
               c \in {ValidText, WideText}} @@
    202 :> {[hdr |-> Header("A", Some(65), None), content |-> ValidText]} @@
    203 :> {[hdr |-> Header("eacute", Some(233), None), content |-> c] :
               c \in {ValidText, JaggedText, ShortText, EmptyText, WideText}}

CleanSystems ==
    UNION {{f \in [present -> UNION {CleanFiles[rel] : rel \in present}] :
               \A rel \in present : f[rel] \in CleanFiles[rel]} :
           present \in SUBSET DOMAIN CleanFiles}

CleanFileSystems ==
    {[cp \in ascii |-> AsciiFile(cp)] @@ extra :
        ascii \in {ASCII_START..ASCII_END, ASCII_START..(ASCII_END - 1)},
        extra \in CleanSystems}

InitClean ==
    /\ pc = "files"
    /\ fs \in CleanFileSystems
    /\ config = Config(GlyphWidth, GlyphHeight, GlyphHeight - 1, 1)
    /\ parsedGlyphs = <<>>
    /\ results = <<>>
    /\ errors = <<>>
    /\ grid = <<>> /\ rects = <<>> /\ pixelSize = 0 /\ baselineRow = 0 /\ path = <<>>
    /\ NoBold
    /\ NoWeights
    /\ NoGate
    /\ NoParse
    /\ NoFont
    /\ NoHeader
    /\ NoDev

NextClean == ParseAllGlyphs \/ ValidateGlyphs

SpecClean == InitClean /\ [][NextClean]_vars

----------------------------------------------------------------------------
(* dev-preview.ts.  The server runs on one thread: a watcher callback starts
   when the call stack is empty and runs to its end; execSync blocks the
   thread for the time of the build, during which the watcher's events are
   queued. *)

\* isBuilding after a build, had runBuild not reset it
FlagLeftSet == TRUE

\* finally { isBuilding = false }
FlagAfterBuild == FALSE

\* the events the watcher has callbacks for that call runBuild
WatcherEvents == {"change", "add", "unlink"}

InitDev ==
    /\ pc = "main"
    /\ NoDev
    /\ NoCorpus
    /\ grid = <<>> /\ rects = <<>> /\ pixelSize = 0 /\ baselineRow = 0 /\ path = <<>>
    /\ NoBold
    /\ NoWeights
    /\ NoGate
    /\ NoParse
    /\ NoFont
    /\ NoHeader

\* runBuild up to execSync: the skip when the flag is set, else the flag is
\* set and the build started
EnterRunBuild ==
    IF isBuilding
    THEN /\ buildLog' = Append(buildLog, "skipped")
         /\ pc' = "idle"
         /\ UNCHANGED isBuilding
    ELSE /\ isBuilding' = TRUE
         /\ pc' = "building"
         /\ UNCHANGED buildLog

\* main: the initial build
InitialBuild ==
    /\ pc = "main"
    /\ EnterRunBuild
    /\ UNCHANGED <<watcherQueue, delivered>>
    /\ UNCHANGED corpusVars
    /\ UNCHANGED glyphVars
    /\ UNCHANGED boldVars
    /\ UNCHANGED weightVars
    /\ UNCHANGED gateVars
    /\ UNCHANGED parseVars
    /\ UNCHANGED fontVars
    /\ UNCHANGED headerVars

\* a glyph file is changed, added or removed: the watcher emits the event,
\* also while a build blocks the thread
FileEvent ==
    /\ pc \in {"idle", "building"}
    /\ delivered + Len(watcherQueue) < MaxEvents
    /\ \E ev \in WatcherEvents : watcherQueue' = Append(watcherQueue, ev)
    /\ UNCHANGED <<pc, isBuilding, delivered, buildLog>>
    /\ UNCHANGED corpusVars
    /\ UNCHANGED glyphVars
    /\ UNCHANGED boldVars
    /\ UNCHANGED weightVars
    /\ UNCHANGED gateVars
    /\ UNCHANGED parseVars
    /\ UNCHANGED fontVars
    /\ UNCHANGED headerVars

\* the callback of the next event starts, the call stack being empty, and
\* calls runBuild
WatcherCallback ==
    /\ pc = "idle"
    /\ Len(watcherQueue) > 0
    /\ watcherQueue' = Tail(watcherQueue)
    /\ delivered' = delivered + 1
    /\ EnterRunBuild
    /\ UNCHANGED corpusVars
    /\ UNCHANGED glyphVars
    /\ UNCHANGED boldVars
    /\ UNCHANGED weightVars
    /\ UNCHANGED gateVars
    /\ UNCHANGED parseVars
    /\ UNCHANGED fontVars
    /\ UNCHANGED headerVars

\* execSync('npm run build') returns: the fonts are copied, success is
\* logged, the flag reset, and runBuild and its callback return
BuildSucceeds ==
    /\ pc = "building"
    /\ buildLog' = Append(buildLog, "succeeded")
    /\ isBuilding' = FlagAfterBuild
    /\ pc' = "idle"
    /\ UNCHANGED <<watcherQueue, delivered>>
    /\ UNCHANGED corpusVars
    /\ UNCHANGED glyphVars
    /\ UNCHANGED boldVars
    /\ UNCHANGED weightVars
    /\ UNCHANGED gateVars
    /\ UNCHANGED parseVars
    /\ UNCHANGED fontVars
    /\ UNCHANGED headerVars

\* execSync('npm run build') throws: the failure is logged, the flag reset
\* by the finally block, and runBuild and its callback return
BuildFails ==
    /\ pc = "building"
    /\ buildLog' = Append(buildLog, "failed")
    /\ isBuilding' = FlagAfterBuild
    /\ pc' = "idle"
    /\ UNCHANGED <<watcherQueue, delivered>>
    /\ UNCHANGED corpusVars
    /\ UNCHANGED glyphVars
    /\ UNCHANGED boldVars
    /\ UNCHANGED weightVars
    /\ UNCHANGED gateVars
    /\ UNCHANGED parseVars
    /\ UNCHANGED fontVars
    /\ UNCHANGED headerVars

NextDev == InitialBuild \/ FileEvent \/ WatcherCallback \/ BuildSucceeds \/ BuildFails

SpecDev == InitDev /\ [][NextDev]_vars

----------------------------------------------------------------------------
(* Vocabulary of the properties *)

\* the cells (row, col), 0-based, a rectangle covers
CellsOf(rect) ==
    {<<r, c>> : r \in rect.y..(rect.y + rect.h - 1),
                c \in rect.x..(rect.x + rect.w - 1)}

\* the cells (row, col), 0-based, of a grid whose value is true
TrueCells(g) ==
    UNION {{<<r - 1, c - 1>> : c \in {c \in 1..Len(g[r]) : g[r][c]}} : r \in 1..Len(g)}

Covered(rs) == UNION {CellsOf(rs[k]) : k \in 1..Len(rs)}

\* the rectangles painted into an all-false grid of the dimensions of g
Paint(rs, g) ==
    [r \in 1..Len(g) |-> [c \in 1..Len(g[r]) |-> <<r - 1, c - 1>> \in Covered(rs)]]

MinOf(S) == CHOOSE m \in S : \A n \in S : m <= n
MaxOf(S) == CHOOSE m \in S : \A n \in S : m >= n

\* the bounding box of a non-empty set of cells, as a rectangle
BoundingBox(cells) ==
    LET rows == {cell[1] : cell \in cells}
        cols == {cell[2] : cell \in cells}
    IN  [x |-> MinOf(cols), y |-> MinOf(rows),
         w |-> MaxOf(cols) - MinOf(cols) + 1, h |-> MaxOf(rows) - MinOf(rows) + 1]

IsSolidBlock(g) ==
    /\ TrueCells(g) # {}
    /\ TrueCells(g) = CellsOf(BoundingBox(TrueCells(g)))

\* the k-th sub-path of the outline: the commands from its moveTo up to and
\* including the closePath
SubPath(k) == SubSeq(path, 5 * (k - 1) + 1, 5 * k)

\* the four vertices of the k-th sub-path, in drawing order
Vertices(k) == [n \in 1..4 |-> <<SubPath(k)[n].x, SubPath(k)[n].y>>]

\* twice the signed area of a closed polygon (shoelace formula); positive
\* when the vertices run counter-clockwise in a Y-up frame
SignedArea2(v) ==
    LET nxt(n) == IF n = Len(v) THEN 1 ELSE n + 1
        term(n) == v[n][1] * v[nxt(n)][2] - v[nxt(n)][1] * v[n][2]
        RECURSIVE sum(_)
        sum(n) == IF n = 0 THEN 0 ELSE term(n) + sum(n - 1)
    IN  sum(Len(v))

IsMultipleOf(v, p) == IF p = 0 THEN v = 0 ELSE v % p = 0

----------------------------------------------------------------------------
(* Properties of the compactor *)

\* C1: every rectangle returned by optimizeGrid has w >= 1 and h >= 1, and
\* the cells covered by the returned rectangles are exactly the true cells
\* of the grid: no true cell uncovered, no false or out-of-grid cell covered.
C1_ExactCoverage ==
    pc = "rects" =>
        /\ \A k \in 1..Len(rects) : rects[k].w >= 1 /\ rects[k].h >= 1
        /\ Covered(rects) = TrueCells(grid)

\* a ragged grid with a false cell and two spans in one row has been tiled
C1_Witness ==
    /\ pc = "rects"
    /\ Len(grid) = 2 /\ Len(grid[1]) = 3 /\ Len(grid[2]) = 1
    /\ grid[1] = <<TRUE, FALSE, TRUE>> /\ grid[2] = <<TRUE>>
    /\ Len(rects) = 2

\* C2: no two distinct rectangles returned by optimizeGrid share a cell, so
\* every true cell lies in exactly one returned rectangle.
C2_NoOverlap ==
    pc = "rects" =>
        /\ \A j, k \in 1..Len(rects) :
              j # k => CellsOf(rects[j]) \cap CellsOf(rects[k]) = {}
        /\ \A cell \in TrueCells(grid) :
              Cardinality({k \in 1..Len(rects) : cell \in CellsOf(rects[k])}) = 1

\* one (x, w) group gave two rectangles and some rectangle is two rows high
C2_Witness ==
    /\ pc = "rects"
    /\ \E j, k \in 1..Len(rects) :
          /\ j # k
          /\ rects[j].x = rects[k].x /\ rects[j].w = rects[k].w
    /\ \E k \in 1..Len(rects) : rects[k].h >= 2

\* C3: painting the rectangles of optimizeGrid(g) into an all-false grid of
\* the dimensions of g and running optimizeGrid on the result returns the
\* same set of rectangles.
C3_RetilingIdempotent ==
    pc = "rects" => Range(optimizeGrid(Paint(rects, grid))) = Range(rects)

\* a grid tiled by three rectangles has been re-tiled
C3_Witness ==
    /\ pc = "rects"
    /\ Len(rects) = 3
    /\ Len(optimizeGrid(Paint(rects, grid))) = 3

\* C4: a grid whose true cells form exactly one solid axis-aligned block is
\* compacted to exactly one rectangle, that block; rows 6-7 of a 16 x 8 grid
\* give {x: 0, y: 6, w: 8, h: 2}.
C4_SolidBlockOneRectangle ==
    pc = "rects" =>
        /\ IsSolidBlock(grid) => rects = <<BoundingBox(TrueCells(grid))>>
        /\ grid = BandGrid(6, 7) => rects = << [x |-> 0, y |-> 6, w |-> 8, h |-> 2] >>

\* the 16 x 8 grid with rows 6-7 filled has been compacted
C4_Witness ==
    /\ pc = "rects"
    /\ grid = BandGrid(6, 7)
    /\ IsSolidBlock(grid)
    /\ Len(rects) = 1

----------------------------------------------------------------------------
(* Properties of the coordinate mapping *)

\* C5: the sub-path emitted for rectangle {x, y, w, h} has its left edge at
\* X = x*p, right edge at X = (x+w)*p, top edge at Y = (b-y)*p and bottom
\* edge at Y = (b-(y+h))*p, and every vertex coordinate is a multiple of p.
C5_ExactEdges ==
    pc = "path" =>
        \A k \in 1..Len(rects) :
            LET r == rects[k]
                v == Vertices(k)
            IN  /\ {v[n][1] : n \in 1..4} = {r.x * pixelSize, (r.x + r.w) * pixelSize}
                /\ {v[n][2] : n \in 1..4} =
                       {(baselineRow - r.y) * pixelSize,
                        (baselineRow - (r.y + r.h)) * pixelSize}
                /\ \A n \in 1..4 : /\ IsMultipleOf(v[n][1], pixelSize)
                                   /\ IsMultipleOf(v[n][2], pixelSize)

\* a rectangle away from the origin and from the baseline has been mapped
C5_Witness ==
    /\ pc = "path"
    /\ pixelSize = 2 /\ baselineRow = 3
    /\ \E k \in 1..Len(rects) :
          /\ rects[k].x = 1 /\ rects[k].y = 1 /\ rects[k].h = 2
          /\ Vertices(k)[1] = <<2, 4>>
          /\ Vertices(k)[3] = <<4, 0>>

\* C6: the outline holds exactly one closed sub-path per rectangle, in the
\* order of the rectangles, each drawn top-left, top-right, bottom-right,
\* bottom-left; for p > 0 every sub-path is clockwise (negative signed area,
\* Y up); no rectangles give an outline with no sub-path.
C6_OneClockwiseSubPathPerRectangle ==
    pc = "path" =>
        /\ Len(path) = 5 * Len(rects)
        /\ \A k \in 1..Len(rects) :
              LET r      == rects[k]
                  left   == r.x * pixelSize
                  right  == (r.x + r.w) * pixelSize
                  top    == (baselineRow - r.y) * pixelSize
                  bottom == (baselineRow - (r.y + r.h)) * pixelSize
              IN  /\ [n \in 1..5 |-> SubPath(k)[n].type] = <<"M", "L", "L", "L", "Z">>
                  /\ Vertices(k) = << <<left, top>>, <<right, top>>,
                                      <<right, bottom>>, <<left, bottom>> >>
                  /\ pixelSize > 0 => SignedArea2(Vertices(k)) < 0
        /\ Len(rects) = 0 => path = <<>>

\* two rectangles have been mapped with a positive pixel size
C6_Witness ==
    /\ pc = "path"
    /\ pixelSize > 0
    /\ Len(rects) = 2
    /\ Len(path) = 10

\* the Y band of grid row r inside the k-th sub-path: the sub-path cut into
\* as many equal slices as its rectangle has rows
RowTop(k, r) ==
    LET v == Vertices(k)
    IN  v[1][2] - (r - rects[k].y) * ((v[1][2] - v[3][2]) \div rects[k].h)

RowBottom(k, r) ==
    LET v == Vertices(k)
    IN  v[1][2] - (r + 1 - rects[k].y) * ((v[1][2] - v[3][2]) \div rects[k].h)

\* C7: with p > 0 a filled cell in a row above the baseline row is drawn
\* entirely at Y >= 0 and a filled cell in the baseline row or below entirely
\* at Y <= 0; a single filled cell at row baselineRow-1, column 0 gives a
\* sub-path with bottom edge Y = 0 and left edge X = 0.
C7_BaselineSeparatesRows ==
    (pc = "path" /\ pixelSize > 0) =>
        /\ \A cell \in TrueCells(grid) :
              \E k \in 1..Len(rects) :
                  /\ cell \in CellsOf(rects[k])
                  /\ RowBottom(k, cell[1]) < RowTop(k, cell[1])
                  /\ cell[1] < baselineRow => RowBottom(k, cell[1]) >= 0
                  /\ cell[1] >= baselineRow => RowTop(k, cell[1]) <= 0
        /\ TrueCells(grid) = {<<baselineRow - 1, 0>>} =>
              /\ Len(rects) = 1
              /\ {Vertices(1)[n][2] : n \in 1..4} = {0, pixelSize}
              /\ {Vertices(1)[n][1] : n \in 1..4} = {0, pixelSize}

\* a rectangle straddling the baseline row has been mapped
C7_Witness ==
    /\ pc = "path" /\ pixelSize > 0
    /\ \E k \in 1..Len(rects) :
          /\ rects[k].y < baselineRow
          /\ baselineRow < rects[k].y + rects[k].h

----------------------------------------------------------------------------
(* Properties of the build *)

\* C8: every standalone glyph (no components) gets advance width W*P
\* whatever its own grid width, and every ligature with N components gets
\* advance width N*W*P.
C8_AdvanceWidths ==
    pc = "built" =>
        \A i \in 1..Len(results) :
            LET pg == parsedGlyphs[i]
                W  == config.grid.width
                P  == config.metrics.pixelSize
            IN  results[i].glyph.advanceWidth =
                    IF pg.header.components.some
                    THEN Len(pg.header.components.val) * W * P
                    ELSE W * P

----------------------------------------------------------------------------
(* Properties of the validator *)

\* the errors of one kind about one codepoint
ErrorsAbout(kind, cp) ==
    {i \in 1..Len(errors) : errors[i].message.kind = kind /\ errors[i].message.cp = cp}

\* the parsed records that carry a codepoint
Carriers(cp) ==
    {i \in 1..Len(parsedGlyphs) :
        parsedGlyphs[i].header.codepoint.some /\ parsedGlyphs[i].header.codepoint.val = cp}

\* every codepoint some record carries or some error is about
KnownCodepoints ==
    {parsedGlyphs[i].header.codepoint.val :
        i \in {j \in 1..Len(parsedGlyphs) : parsedGlyphs[j].header.codepoint.some}}
    \cup {errors[i].message.cp : i \in 1..Len(errors)}
    \cup (ASCII_START..ASCII_END)

\* C9: validateGlyphs reports exactly one missing-glyph error for each
\* codepoint of U+0020..U+007E that no parsed record carries and none for a
\* codepoint some record carries; a corpus missing exactly one required
\* codepoint gets exactly one missing-glyph error.
C9_MissingGlyphErrors ==
    pc = "validated" =>
        /\ \A cp \in KnownCodepoints :
              Cardinality(ErrorsAbout("missing", cp)) =
                  IF cp \in 32..126 /\ Carriers(cp) = {} THEN 1 ELSE 0
        /\ Cardinality({cp \in 32..126 : Carriers(cp) = {}}) = 1 =>
              Cardinality({i \in 1..Len(errors) : errors[i].message.kind = "missing"}) = 1

\* a corpus missing exactly U+007E, with other files around, was validated
C9_Witness ==
    /\ pc = "validated"
    /\ {cp \in 32..126 : Carriers(cp) = {}} = {126}
    /\ Carriers(233) # {}
    /\ Cardinality(ErrorsAbout("missing", 126)) = 1

\* C10: for every codepoint carried by k >= 2 parsed records validateGlyphs
\* reports exactly one duplicate-codepoint error, whose file field names all
\* k files; it reports none for a codepoint carried by exactly one record nor
\* for records without a codepoint.
C10_DuplicateErrors ==
    pc = "validated" =>
        /\ \A cp \in KnownCodepoints :
              IF Cardinality(Carriers(cp)) >= 2
              THEN /\ Cardinality(ErrorsAbout("duplicate", cp)) = 1
                   /\ \A i \in ErrorsAbout("duplicate", cp) :
                         /\ Range(errors[i].file.files) =
                                {parsedGlyphs[j].filePath.rel : j \in Carriers(cp)}
                         /\ Len(errors[i].file.files) = Cardinality(Carriers(cp))
              ELSE ErrorsAbout("duplicate", cp) = {}
        /\ Cardinality({i \in 1..Len(errors) : errors[i].message.kind = "duplicate"}) =
               Cardinality({cp \in KnownCodepoints : Cardinality(Carriers(cp)) >= 2})

\* two files of U+0041 and a file without a codepoint were validated
C10_Witness ==
    /\ pc = "validated"
    /\ Cardinality(Carriers(65)) = 2
    /\ \E i \in 1..Len(parsedGlyphs) : ~parsedGlyphs[i].header.codepoint.some
    /\ \E i \in ErrorsAbout("duplicate", 65) : Len(errors[i].file.files) = 2

\* the errors of one kind about one file
ErrorsOn(rel, kind) ==
    {k \in 1..Len(errors) :
        errors[k].file.files = <<rel>> /\ errors[k].message.kind = kind}

\* 1 when the condition holds, 0 otherwise
Count(cond) == IF cond THEN 1 ELSE 0

\* the indices of the raster lines of a source text: every line from the
\* first line that is neither a comment nor blank to the end
RasterLines(lines) ==
    LET starts == {n \in 1..Len(lines) : ~StartsWithHash(lines[n]) /\ ~IsBlank(lines[n])}
    IN  IF starts = {} THEN {} ELSE MinOf(starts)..Len(lines)

\* the raster lines that are empty or hold a character other than '.' and 'X'
BadRasterLines(lines) ==
    {n \in RasterLines(lines) :
        lines[n] = <<>> \/ \E c \in 1..Len(lines[n]) : lines[n][c] \notin {".", "X"}}

\* the kinds of the errors the checks on one glyph report
GlyphKinds == {"height", "width", "row", "char", "unreadable", "range", "surrogate"}

\* C11: validateGlyphs never aborts early: every glyph gets the errors of
\* each of its checks (height, width, row length, character set or failed
\* re-read, codepoint range, surrogate) whatever the other checks and the
\* other glyphs report, the duplicate and completeness checks report theirs
\* whatever the glyphs' errors, and the list holds nothing else.
C11_NoEarlyAbort ==
    pc = "validated" =>
        /\ \A i \in 1..Len(parsedGlyphs) :
              LET g   == parsedGlyphs[i]
                  rel == g.filePath.rel
                  W   == config.grid.width
                  H   == config.grid.height
                  cp  == g.header.codepoint
              IN  /\ Cardinality(ErrorsOn(rel, "height")) = Count(Len(g.grid) # H)
                  /\ Cardinality(ErrorsOn(rel, "width")) =
                         Count((IF Len(g.grid) > 0 THEN Len(g.grid[1]) ELSE 0) # W)
                  /\ Cardinality(ErrorsOn(rel, "row")) =
                         Cardinality({r \in 1..Len(g.grid) : Len(g.grid[r]) # W})
                  /\ IF rel \in DOMAIN fs
                     THEN /\ Cardinality(ErrorsOn(rel, "char")) =
                                 Cardinality(BadRasterLines(FileLines(fs[rel].content)))
                          /\ ErrorsOn(rel, "unreadable") = {}
                     ELSE /\ ErrorsOn(rel, "char") = {}
                          /\ Cardinality(ErrorsOn(rel, "unreadable")) = 1
                  /\ Cardinality(ErrorsOn(rel, "range")) =
                         Count(cp.some /\ (cp.val < 0 \/ cp.val > 1114111))
                  /\ Cardinality(ErrorsOn(rel, "surrogate")) =
                         Count(cp.some /\ cp.val >= 55296 /\ cp.val <= 57343)
        /\ \A cp \in KnownCodepoints :
              /\ Cardinality(ErrorsAbout("duplicate", cp)) =
                     Count(Cardinality(Carriers(cp)) >= 2)
              /\ Cardinality(ErrorsAbout("missing", cp)) =
                     Count(cp \in 32..126 /\ Carriers(cp) = {})
        /\ \A k \in 1..Len(errors) :
              \/ errors[k].message.kind \in {"duplicate", "missing"}
              \/ /\ errors[k].message.kind \in GlyphKinds
                 /\ \E i \in 1..Len(parsedGlyphs) :
                        errors[k].file.files = <<parsedGlyphs[i].filePath.rel>>

\* a corpus was validated in which one glyph violates the height, width,
\* row length, character and codepoint range checks, another could not be
\* re-read and has a wrong height, a codepoint is duplicated and a required
\* codepoint is missing
C11_Witness ==
    /\ pc = "validated"
    /\ \A kind \in {"height", "width", "row", "char", "range"} : ErrorsOn(204, kind) # {}
    /\ ErrorsOn(203, "unreadable") # {} /\ ErrorsOn(203, "height") # {}
    /\ ErrorsAbout("duplicate", 65) # {}
    /\ ErrorsAbout("missing", 126) # {}

\* C12: a ligature of N components whose grid has the configured number of
\* rows, each N*W columns wide, gets no width error and no row-length error;
\* a standalone record gets a width error exactly when its width is not W.
C12_LigatureWidthAccepted ==
    pc = "validated" =>
        \A i \in 1..Len(parsedGlyphs) :
            LET g   == parsedGlyphs[i]
                rel == g.filePath.rel
                W   == config.grid.width
            IN  IF g.header.components.some
                THEN LET N == Len(g.header.components.val)
                     IN  (/\ Len(g.grid) = config.grid.height
                          /\ \A r \in 1..Len(g.grid) : Len(g.grid[r]) = N * W)
                         => ErrorsOn(rel, "width") = {} /\ ErrorsOn(rel, "row") = {}
                ELSE Cardinality(ErrorsOn(rel, "width")) = Count(g.width # W)

\* C13: every raster line of a re-read source text that is empty or holds a
\* character other than '.' and 'X' gets exactly one invalid-character error
\* carrying its 1-based raster row number and the literal line; a corpus
\* with a third symbol in a raster never validates with an empty error list.
C13_InvalidCharacterErrors ==
    pc = "validated" =>
        \A i \in 1..Len(parsedGlyphs) :
            LET rel   == parsedGlyphs[i].filePath.rel
                lines == FileLines(fs[rel].content)
                first == MinOf(RasterLines(lines))
            IN  rel \in DOMAIN fs =>
                  /\ \A n \in BadRasterLines(lines) :
                        Cardinality({k \in ErrorsOn(rel, "char") :
                                        /\ errors[k].message.row = n - first + 1
                                        /\ errors[k].message.line = lines[n]}) = 1
                  /\ (\E n \in RasterLines(lines) : \E c \in 1..Len(lines[n]) :
                          lines[n][c] \notin {".", "X"}) => errors # <<>>

\* a complete glyphs/ascii/ was validated together with a file whose raster
\* has a row with a third symbol, which the parser mapped to false cells,
\* and an empty row: both rows got their error
C13_Witness ==
    /\ pc = "validated"
    /\ \A cp \in 32..126 : Carriers(cp) # {}
    /\ 203 \in DOMAIN fs
    /\ \E i \in 1..Len(parsedGlyphs) :
          /\ parsedGlyphs[i].filePath.rel = 203
          /\ Len(parsedGlyphs[i].grid) >= 3
          /\ \A c \in 1..Len(parsedGlyphs[i].grid[2]) : ~parsedGlyphs[i].grid[2][c]
    /\ \E k \in ErrorsOn(203, "char") :
          errors[k].message.row = 2 /\ "o" \in Range(errors[k].message.line)
    /\ \E k \in ErrorsOn(203, "char") :
          errors[k].message.row = 3 /\ errors[k].message.line = <<>>

----------------------------------------------------------------------------
(* Properties of autoBold *)

\* C14: autoBold(g) has the row count and the row lengths of g, and its cell
\* (r, c) is g[r][c] OR (c >= 1 AND g[r][c-1]), g being the source grid: no
\* cascade along a row, nothing outside the row, and a grid filled only in
\* its rightmost column comes back with the same values.
C14_DilatesOneColumnRight ==
    pc = "bold" =>
        LET out == Deref(heap, bold)
        IN  /\ Len(out) = Len(grid)
            /\ \A r \in 1..Len(grid) :
                  /\ Len(out[r]) = Len(grid[r])
                  /\ \A c \in 1..Len(grid[r]) :
                        out[r][c] = (grid[r][c] \/ (c >= 2 /\ grid[r][c - 1]))
            /\ (\A r \in 1..Len(grid) : \A c \in 1..Len(grid[r]) :
                    grid[r][c] => c = Len(grid[r])) => out = grid

\* autoBold has returned for a grid with a filled cell followed by two
\* empty cells, of which only the first was filled, and with a row filled
\* only in its last column, returned as it was
C14_Witness ==
    /\ pc = "bold"
    /\ \E r \in 1..Len(grid) :
          /\ Len(grid[r]) >= 3
          /\ grid[r][1] /\ ~grid[r][2] /\ ~grid[r][3]
          /\ heap[bold[r]][2] /\ ~heap[bold[r]][3]
    /\ \E r \in 1..Len(grid) :
          /\ Len(grid[r]) >= 2
          /\ \A c \in 1..Len(grid[r]) : grid[r][c] <=> c = Len(grid[r])
          /\ heap[bold[r]] = grid[r]

\* C15: autoBold leaves its argument unchanged cell for cell, and no row of
\* the result is the same array as a row of the source.
C15_SourceUntouchedFreshRows ==
    pc = "bold" =>
        /\ Deref(heap, gridRows) = grid
        /\ Range(bold) \cap Range(gridRows) = {}
        /\ \A r, q \in 1..Len(bold) : r # q => bold[r] # bold[q]

\* autoBold has returned a grid that differs from its non-empty source
C15_Witness ==
    /\ pc = "bold"
    /\ Len(gridRows) >= 2
    /\ Deref(heap, bold) # grid
    /\ Deref(heap, gridRows) = grid

----------------------------------------------------------------------------
(* Properties of the build of two weights *)

\* the hand-authored bold records, in corpus order
HandAuthored == SelectSeq(parsedGlyphs, LAMBDA g : g.header.weight = "bold")

\* the positions in boldGlyphs of the records derived from a regular glyph
DerivedFrom(g) ==
    {k \in (Len(HandAuthored) + 1)..Len(boldGlyphs) : boldGlyphs[k].filePath = g.filePath}

\* the record is the regular glyph g made bold: its grid dilated one column
\* to the right, its weight bold, everything else as in g
IsBoldOf(d, g) ==
    /\ d.header = [g.header EXCEPT !.weight = "bold"]
    /\ d.filePath = g.filePath /\ d.width = g.width /\ d.height = g.height
    /\ Len(d.grid) = Len(g.grid)
    /\ \A r \in 1..Len(g.grid) :
          /\ Len(d.grid[r]) = Len(g.grid[r])
          /\ \A c \in 1..Len(g.grid[r]) :
                d.grid[r][c] = (g.grid[r][c] \/ (c >= 2 /\ g.grid[r][c - 1]))

\* the identity key of every record: its codepoint when present, otherwise
\* its label
SameIdentity(a, b) ==
    IF a.codepoint.some
    THEN b.codepoint.some /\ b.codepoint.val = a.codepoint.val
    ELSE ~b.codepoint.some /\ b.label = a.label

\* a record has an identity key when it has a codepoint or components
HasKey(a) == a.codepoint.some \/ a.components.some

\* the identity key of a record that has one: its codepoint when present,
\* otherwise the label of the ligature
SameKey(a, b) == HasKey(a) /\ HasKey(b) /\ SameIdentity(a, b)

\* the hand-authored bold records open boldGlyphs unmodified, and every
\* other record of boldGlyphs is the bold of a regular glyph
BoldGlyphsWellFormed ==
    /\ Len(boldGlyphs) >= Len(HandAuthored)
    /\ SubSeq(boldGlyphs, 1, Len(HandAuthored)) = HandAuthored
    /\ \A k \in (Len(HandAuthored) + 1)..Len(boldGlyphs) :
          \E i \in 1..Len(regularGlyphs) : IsBoldOf(boldGlyphs[k], regularGlyphs[i])

----------------------------------------------------------------------------
(* Properties of the gate *)

\* C17: whenever a font file has been written, or the glyphs have been built,
\* the validator has exited before with an empty error list, that is with
\* exit code 0; a corpus with a validation error never gets a font written.
C17_ValidationGatesBuild ==
    (written # {} \/ pc = "built") =>
        /\ exitCode = Some(0)
        /\ validateGlyphs(parseAllGlyphs(fs), config, fs) = <<>>

----------------------------------------------------------------------------
(* Properties of the parser *)

\* the promises of parseAllGlyphs have all settled
AllSettled == \A i \in 1..Len(promises) : promises[i] # Pending

\* the promises whose parseGlyph produced a record
Produced == {i \in 1..Len(promises) : promises[i].state = "fulfilled"}

\* the '.glyph' entries directly in the listed directories
ListedGlyphEntries ==
    {rel \in DOMAIN fs : /\ Entries[rel].dir \in Range(GLYPH_DIRS)
                         /\ Entries[rel].ext = ".glyph"}


\* C18: parseGlyph returns no record for a source whose raster holds a
\* character other than '.' and 'X': every record parseAllGlyphs returned
\* comes from a file whose raster lines hold only these two characters.
C18_NoSilentCoercion ==
    pc = "parsed" =>
        \A i \in 1..Len(parsedGlyphs) :
            LET lines == FileLines(fs[parsedGlyphs[i].filePath.rel].content)
            IN  \A n \in RasterLines(lines) : \A c \in 1..Len(lines[n]) :
                    lines[n][c] \in {".", "X"}

\* C19: a failure is confined to its file: once every parse of a pass has
\* settled and parseAllGlyphs has finished, the record of every file whose
\* parse succeeded is among the records returned, also when the read of
\* another file failed.
C19_FailureConfinedToFile ==
    (pc \in {"parsed", "rejected"} /\ AllSettled) =>
        \A i \in Produced : promises[i].value \in Range(parsedGlyphs)

\* C20: whatever order the reads complete in, parseAllGlyphs returns exactly
\* one record per '.glyph' entry directly in the listed directories that
\* exist, each the record of its file, in ascending order of the paths; a
\* listed directory that does not exist raises no error: the pass fails only
\* when the read of a file it found fails.
C20_OneRecordPerEntryAscending ==
    /\ pc = "parsed" =>
          /\ {parsedGlyphs[i].filePath.rel : i \in 1..Len(parsedGlyphs)} = ListedGlyphEntries
          /\ Len(parsedGlyphs) = Cardinality(ListedGlyphEntries)
          /\ \A i \in 1..Len(parsedGlyphs) :
                LET rel == parsedGlyphs[i].filePath.rel
                IN  parsedGlyphs[i] = parseGlyph(rel, fs[rel])
          /\ \A i, j \in 1..Len(parsedGlyphs) :
                i < j => parsedGlyphs[i].filePath.rel < parsedGlyphs[j].filePath.rel
    /\ pc = "rejected" =>
          \E i \in 1..Len(glyphFiles) :
              promises[i] = Rejected /\ glyphFiles[i] \notin DOMAIN fs

\* three records of two directories were returned, with a listed directory
\* missing and, on disk, an entry that is no '.glyph' and a '.glyph' in a
\* directory not listed
C20_Witness ==
    /\ pc = "parsed"
    /\ Len(parsedGlyphs) = 3
    /\ DOMAIN fs = {11, 12, 13, 21, 41}
    /\ readdir(fs, "glyphs/ligatures") = None

----------------------------------------------------------------------------
(* Properties of the ligature registration *)

\* the ligature records of the parsed corpus, by position
LigatureGlyphs == {i \in 1..Len(parsedGlyphs) : parsedGlyphs[i].header.components.some}

\* a name no parsed record with a codepoint has as its label
IsUnknownName(name) ==
    \A j \in 1..Len(parsedGlyphs) :
        ~(parsedGlyphs[j].header.codepoint.some /\ parsedGlyphs[j].header.label = name)

\* the component names of the ligature at position i that are unknown
UnknownComponents(i) ==
    {name \in Range(parsedGlyphs[i].header.components.val) : IsUnknownName(name)}

\* the rules registered for the glyph at position i
RulesFor(i) == {k \in 1..Len(liga) : liga[k].by = i}

----------------------------------------------------------------------------
(* Properties of the line scan *)

\* the lines of the file of the line scan run
ScanFileLines == FileLines(fs[ScanFile].content)

\* the first line that is neither a comment nor blank, one past the last
\* line when there is none
RasterStart ==
    LET lines == ScanFileLines
        starts == {n \in 1..Len(lines) : ~StartsWithHash(lines[n]) /\ ~IsBlank(lines[n])}
    IN  IF starts = {} THEN Len(lines) + 1
        ELSE CHOOSE n \in starts : \A m \in starts : n <= m

\* the blank lines after the raster start
BlankRasterLines ==
    {n \in (RasterStart + 1)..Len(ScanFileLines) : IsBlank(ScanFileLines[n])}

\* C22: the scan has two phases: no line before the first non-comment,
\* non-blank line becomes a row, and every line from it on, blank and '#'
\* lines included, is a raster row of the record, one cell per character;
\* the validator numbers the rows from the same line, so every blank line
\* inside the raster is reported as a row with invalid characters and the
\* source does not validate cleanly.
C22_TwoPhaseLineScan ==
    LET lines == ScanFileLines
        start == RasterStart
    IN  /\ pc \in {"parsed", "validated"} =>
              LET g == parsedGlyphs[1]
              IN  /\ g.height = Len(lines) - start + 1
                  /\ Len(g.grid) = g.height
                  /\ \A r \in 1..g.height :
                        /\ Len(g.grid[r]) = Len(lines[start + r - 1])
                        /\ \A c \in 1..Len(g.grid[r]) :
                              g.grid[r][c] = (lines[start + r - 1][c] = "X")
        /\ pc = "validated" =>
              /\ \A k \in ErrorsOn(ScanFile, "char") :
                    /\ errors[k].message.row \in 1..(Len(lines) - start + 1)
                    /\ errors[k].message.line = lines[start + errors[k].message.row - 1]
              /\ \A n \in BlankRasterLines :
                    \E k \in ErrorsOn(ScanFile, "char") :
                        errors[k].message.row = n - start + 1

\* a file with a blank line before its raster and, inside the raster, a
\* blank line and a '#' line was validated: both are rows of the record
C22_Witness ==
    /\ pc = "validated"
    /\ RasterStart > 1
    /\ \E n \in 1..(RasterStart - 1) : IsBlank(ScanFileLines[n])
    /\ BlankRasterLines # {}
    /\ \E n \in (RasterStart + 1)..Len(ScanFileLines) : StartsWithHash(ScanFileLines[n])
    /\ parsedGlyphs[1].height = 3

----------------------------------------------------------------------------
(* Properties of the header parser *)

\* the label line of the header: the first line that is neither empty nor a
\* weight nor a components line, 0 when there is none
LabelLine ==
    LET labels == {i \in 1..Len(rawHeader) :
                      rawHeader[i].kind \in {"codepoint label", "ligature label", "plain label"}}
    IN  IF labels = {} THEN 0 ELSE CHOOSE i \in labels : \A j \in labels : i <= j

\* the header supplies a codepoint: its label line has a codepoint suffix
HeaderSuppliesCodepoint ==
    LabelLine > 0 /\ rawHeader[LabelLine].kind = "codepoint label"

\* the header has a components field
HasComponentsField == \E i \in 1..Len(rawHeader) : rawHeader[i].kind = "components"

\* the label line has the '(ligature)' suffix
HasLigatureLabel == LabelLine > 0 /\ rawHeader[LabelLine].kind = "ligature label"

\* the file name starts with 'U+', four to six hex digits and '_'
HasCodepointPrefix == headerFile.val.hasPrefix /\ headerFile.val.digits \in 4..6

\* C23: the record gets the codepoint of a 'U+<hex>_' file name prefix if
\* and only if the header supplied no codepoint and the record is no
\* ligature, by a '(ligature)' label or by a components field; a ligature
\* never gets a codepoint from the file name and a codepoint of the header is
\* never replaced.
C23_FilenameCodepointIffNotLigature ==
    pc = "header" =>
        LET isLigature == HasLigatureLabel \/ HasComponentsField
            cp == parsedHeader.val.codepoint
        IN  /\ HeaderSuppliesCodepoint => cp = Some(rawHeader[LabelLine].cp)
            /\ (~HeaderSuppliesCodepoint /\ ~isLigature /\ HasCodepointPrefix) =>
                    cp = Some(headerFile.val.value)
            /\ (~HeaderSuppliesCodepoint /\ (isLigature \/ ~HasCodepointPrefix)) =>
                    cp = None

----------------------------------------------------------------------------
(* Properties of the rectangles as runs *)

\* cell (row, col), 0-based, of the grid is inside its row and true
IsFilled(row, col) ==
    /\ row \in 0..(Len(grid) - 1)
    /\ col \in 0..(Len(grid[row + 1]) - 1)
    /\ grid[row + 1][col + 1]

\* row holds the maximal horizontal span [x, x + w): its cells are true and
\* the cells x - 1 and x + w are false or outside the row
IsMaximalSpan(row, x, w) ==
    /\ \A col \in x..(x + w - 1) : IsFilled(row, col)
    /\ ~IsFilled(row, x - 1)
    /\ ~IsFilled(row, x + w)

\* C24: every rectangle returned by optimizeGrid is a maximal run: each of
\* its rows holds the maximal span exactly [x, x + w), neither the row above
\* it nor the row below it holds a span with the same (x, w), and no two
\* rectangles with equal (x, w) are vertically adjacent.
C24_RectanglesAreMaximalRuns ==
    pc = "rects" =>
        \A k \in 1..Len(rects) :
            LET r == rects[k]
            IN  /\ \A row \in r.y..(r.y + r.h - 1) : IsMaximalSpan(row, r.x, r.w)
                /\ ~IsMaximalSpan(r.y - 1, r.x, r.w)
                /\ ~IsMaximalSpan(r.y + r.h, r.x, r.w)
                /\ \A j \in 1..Len(rects) :
                      (rects[j].x = r.x /\ rects[j].w = r.w) =>
                          rects[j].y # r.y + r.h

\* a rectangle of two rows ends above a row whose span covers its columns
\* but is wider
C24_Witness ==
    /\ pc = "rects"
    /\ \E k \in 1..Len(rects) :
          /\ rects[k].h = 2
          /\ IsFilled(rects[k].y + 2, rects[k].x)
          /\ IsFilled(rects[k].y + 2, rects[k].x + rects[k].w)

----------------------------------------------------------------------------
(* Properties of the rectangle count *)

\* the rectangles that lie inside the true cells of a grid
FillRects(g) ==
    LET cells == TrueCells(g)
        rows  == {cell[1] : cell \in cells}
        cols  == {cell[2] : cell \in cells}
    IN  {r \in [x : cols, y : rows, w : 1..Cardinality(cols), h : 1..Cardinality(rows)] :
            CellsOf(r) \subseteq cells}

\* the sets of k elements of S
RECURSIVE SubsetsOfSize(_, _)
SubsetsOfSize(S, k) ==
    IF k = 0 THEN {{}}
    ELSE UNION {{T \cup {x} : T \in SubsetsOfSize(S \ {x}, k - 1)} : x \in S}

\* the rectangles of T tile the true cells of g exactly: they cover them and
\* no two share a cell
TilesExactly(T, g) ==
    /\ UNION {CellsOf(r) : r \in T} = TrueCells(g)
    /\ \A r1, r2 \in T : r1 # r2 => CellsOf(r1) \cap CellsOf(r2) = {}

\* some k rectangles tile the true cells of g exactly
HasTiling(g, k) == \E T \in SubsetsOfSize(FillRects(g), k) : TilesExactly(T, g)

\* the least number of rectangles that tile the true cells of the grid
\* exactly; the rectangles returned are such a tiling, so it is at most
\* their number
MinTiles ==
    CHOOSE k \in 0..Len(rects) :
        /\ k = Len(rects) \/ HasTiling(grid, k)
        /\ \A m \in 0..(k - 1) : ~HasTiling(grid, m)

\* the bars of the height of a box, narrower than it, along its left or its
\* right side
SideBars(box) ==
    {[x |-> box.x, y |-> box.y, w |-> w, h |-> box.h] : w \in 1..(box.w - 1)} \cup
    {[x |-> box.x + box.w - w, y |-> box.y, w |-> w, h |-> box.h] : w \in 1..(box.w - 1)}

\* the true cells form an "L": a vertical bar of two rows or more whose last
\* row extends to one side into a foot
IsLShape(g) ==
    LET cells == TrueCells(g)
    IN  /\ cells # {}
        /\ LET box == BoundingBox(cells)
               last == box.y + box.h - 1
               foot == [x |-> box.x, y |-> last, w |-> box.w, h |-> 1]
           IN  /\ box.h >= 2
               /\ \E bar \in SideBars(box) :
                     cells = CellsOf(bar) \cup CellsOf(foot)

\* the true cells form a vertical bar of three rows or more with one row
\* that is neither its first nor its last extending to one side
IsSideBranch(g) ==
    LET cells == TrueCells(g)
    IN  /\ cells # {}
        /\ LET box == BoundingBox(cells)
           IN  /\ box.h >= 3
               /\ \E bar \in SideBars(box) :
                     \E row \in (box.y + 1)..(box.y + box.h - 2) :
                         cells = CellsOf(bar) \cup
                                 CellsOf([x |-> box.x, y |-> row, w |-> box.w, h |-> 1])

\* C25: for a grid whose true cells form an L, optimizeGrid returns
\* strictly more rectangles than the least number that tile the shape.
C25_LShapeNotOptimal ==
    (pc = "rects" /\ IsLShape(grid)) => Len(rects) > MinTiles

\* C25, amended: on an L optimizeGrid is optimal, it returns two
\* rectangles and no single rectangle tiles an L; it is not optimal on a bar
\* with a side branch in a middle row, where it returns three rectangles and
\* two tile the shape.
C25_OptimalOnLNotOnSideBranch ==
    pc = "rects" =>
        /\ IsLShape(grid) => (Len(rects) = 2 /\ MinTiles = 2)
        /\ IsSideBranch(grid) => (Len(rects) = 3 /\ MinTiles = 2)

\* an L with a bar of three rows was compacted
C25_Witness ==
    /\ pc = "rects"
    /\ IsLShape(grid)
    /\ Len(grid) = 3
    /\ \E k \in 1..Len(rects) : rects[k].h = 2

----------------------------------------------------------------------------
(* Properties of the order of the errors *)

\* the position in the corpus of the glyph an error of a glyph is about
GlyphOf(k) ==
    CHOOSE i \in 1..Len(parsedGlyphs) :
        errors[k].file.files = <<parsedGlyphs[i].filePath.rel>>

\* the place of a check among the checks of one glyph
CheckRank(kind) ==
    CASE kind = "height" -> 1
      [] kind = "width" -> 2
      [] kind = "row" -> 3
      [] kind \in {"char", "unreadable"} -> 4
      [] kind = "range" -> 5
      [] kind = "surrogate" -> 6

\* the first glyph of the corpus that carries the codepoint
FirstCarrier(cp) ==
    LET carriers == {i \in 1..Len(parsedGlyphs) :
                        /\ parsedGlyphs[i].header.codepoint.some
                        /\ parsedGlyphs[i].header.codepoint.val = cp}
    IN  CHOOSE i \in carriers : \A j \in carriers : i <= j

\* the place of an error in the order the claim describes: the part of the
\* list, then glyph, check and row, or first carrier, or codepoint
OrderKey(k) ==
    LET m == errors[k].message
    IN  CASE m.kind = "duplicate" -> <<2, FirstCarrier(m.cp), 0, 0>>
          [] m.kind = "missing" -> <<3, m.cp, 0, 0>>
          [] OTHER -> <<1, GlyphOf(k), CheckRank(m.kind), m.row>>

\* a comes strictly before b in the lexicographic order
LexLess(a, b) ==
    \E n \in 1..Len(a) : a[n] < b[n] /\ \A m \in 1..(n - 1) : a[m] = b[m]

\* the errors are listed glyph by glyph in corpus order, within a glyph
\* check by check and row by row, then the duplicates by first occurrence,
\* then the missing codepoints ascending: each error comes strictly before
\* the next one
ErrorsInOrder ==
    \A a \in 1..(Len(errors) - 1) : LexLess(OrderKey(a), OrderKey(a + 1))

\* C26: validateGlyphs is deterministic in its output order: the error list
\* is in the order of the per-glyph checks in corpus order, then the
\* duplicates by first occurrence, then the missing codepoints ascending,
\* and a second run on the same glyphs, configuration and files returns the
\* identical list.
C26_DeterministicErrorOrder ==
    /\ [](pc \in {"validated", "revalidated"} => ErrorsInOrder)
    /\ [][pc' = "revalidated" => errors' = errors]_vars

\* a second run returned a list with errors of four checks on one glyph,
\* errors on an earlier glyph, two duplicated codepoints of which the greater
\* occurs first, and a missing codepoint
C26_Witness ==
    /\ pc = "revalidated"
    /\ \A kind \in {"height", "width", "row", "char", "range"} : ErrorsOn(205, kind) # {}
    /\ ErrorsOn(201, "row") # {}
    /\ ErrorsAbout("duplicate", 65) # {}
    /\ ErrorsAbout("duplicate", 233) # {}
    /\ FirstCarrier(233) < FirstCarrier(65)
    /\ ErrorsAbout("missing", 126) # {}

----------------------------------------------------------------------------
(* Properties of the order of the substitutions *)

\* sequence a is a proper prefix of sequence b
IsProperPrefix(a, b) == Len(a) < Len(b) /\ SubSeq(b, 1, Len(a)) = a

\* the glyph at index i, counted from 0, of the glyph array
GlyphAt(i) == glyphArray[i + 1]

\* C27: the 'liga' rules are added in non-increasing order of component
\* count, rules of equal count in glyph order, so a rule whose components
\* are a proper prefix of another's comes after it; and the target index of
\* each rule is the position of the ligature's own glyph in the glyph array,
\* whose index 0 is '.notdef'.
C27_LongestFirstOwnGlyph ==
    pc = "registered" =>
        /\ GlyphAt(0).name = ".notdef"
        /\ \A a, b \in 1..Len(liga) :
              /\ a < b => Len(liga[a].sub) >= Len(liga[b].sub)
              /\ (a < b /\ Len(liga[a].sub) = Len(liga[b].sub)) => liga[a].by < liga[b].by
              /\ IsProperPrefix(liga[a].sub, liga[b].sub) => b < a
        /\ \A k \in 1..Len(liga) :
              LET by  == liga[k].by
                  own == parsedGlyphs[by].header
              IN  /\ by \in 1..(Len(glyphArray) - 1)
                  /\ GlyphAt(by) = results[by].glyph
                  /\ GlyphAt(by).name = own.label
                  /\ own.components.some
                  /\ Len(liga[k].sub) = Len(own.components.val)
                  /\ \A n \in 1..Len(liga[k].sub) :
                        /\ GlyphAt(liga[k].sub[n]).unicode.some
                        /\ GlyphAt(liga[k].sub[n]).name = own.components.val[n]

\* all four ligatures were registered: '===' first although '==', a proper
\* prefix of it, precedes it in the glyph array, then the three ligatures of
\* two components in glyph order
C27_Witness ==
    /\ pc = "registered"
    /\ Len(liga) = 4
    /\ GlyphAt(liga[1].by).name = "==="
    /\ GlyphAt(liga[2].by).name = "=="
    /\ liga[2].by < liga[1].by
    /\ IsProperPrefix(liga[2].sub, liga[1].sub)

----------------------------------------------------------------------------
(* Properties of a clean validation *)

----------------------------------------------------------------------------
(* Properties of the development server *)

\* C29: whatever the interleaving of file events and of builds that succeed
\* or fail, isBuilding is false whenever a watcher callback can start; the
\* flag is set exactly while the one build runs; the skip branch of runBuild
\* is never taken; and when the server is idle the initial call and every
\* event delivered have each had their own build.
C29_EveryEventRebuilds ==
    /\ pc \in {"main", "idle"} => ~isBuilding
    /\ pc \in {"main", "idle", "building"} => (isBuilding <=> pc = "building")
    /\ \A k \in 1..Len(buildLog) : buildLog[k] # "skipped"
    /\ pc = "idle" => Len(buildLog) = delivered + 1
    /\ pc = "building" => Len(buildLog) = delivered

\* the build of the second event runs after the build of the first failed,
\* with a third event emitted and waiting for its callback
C29_Witness ==
    /\ pc = "building"
    /\ isBuilding
    /\ delivered = 2
    /\ buildLog = <<"succeeded", "failed">>
    /\ Len(watcherQueue) = 1

----------------------------------------------------------------------------
(* Properties of compaction followed by mapping *)

\* the number of sub-paths of the outline
SubPathCount == Len(path) \div 5

\* the extent of the k-th sub-path
Left(k) == MinOf({Vertices(k)[n][1] : n \in 1..4})
Right(k) == MaxOf({Vertices(k)[n][1] : n \in 1..4})
Bottom(k) == MinOf({Vertices(k)[n][2] : n \in 1..4})
Top(k) == MaxOf({Vertices(k)[n][2] : n \in 1..4})

\* the k-th sub-path is an axis-aligned rectangle: its edges are horizontal
\* and vertical in turn
IsAxisAligned(k) ==
    LET v == Vertices(k)
    IN  \/ v[1][2] = v[2][2] /\ v[2][1] = v[3][1] /\ v[3][2] = v[4][2] /\ v[4][1] = v[1][1]
        \/ v[1][1] = v[2][1] /\ v[2][2] = v[3][2] /\ v[3][1] = v[4][1] /\ v[4][2] = v[1][2]

\* the interiors of the j-th and the k-th sub-path share no point
InteriorsDisjoint(j, k) ==
    \/ Right(j) <= Left(k) \/ Right(k) <= Left(j)
    \/ Top(j) <= Bottom(k) \/ Top(k) <= Bottom(j)

\* the sum of the areas of the first k sub-paths
RECURSIVE AreaSum(_)
AreaSum(k) ==
    IF k = 0 THEN 0
    ELSE (Right(k) - Left(k)) * (Top(k) - Bottom(k)) + AreaSum(k - 1)

\* the length of the longest row of the grid
LongestRow == IF Len(grid) = 0 THEN 0 ELSE MaxOf({Len(grid[r]) : r \in 1..Len(grid)})

\* C30: for every grid and pixel size p > 0 the outline of the compacted
\* grid consists of closed sub-paths that are axis-aligned rectangles with
\* pairwise disjoint interiors, their areas sum to p*p times the number of
\* true cells, and every vertex has 0 <= X <= (longest row length)*p and
\* (b - rows)*p <= Y <= b*p.
C30_FilledAreaPreserved ==
    (pc = "path" /\ pixelSize > 0) =>
        /\ Len(path) = 5 * SubPathCount
        /\ \A k \in 1..SubPathCount :
              /\ [n \in 1..5 |-> SubPath(k)[n].type] = <<"M", "L", "L", "L", "Z">>
              /\ IsAxisAligned(k)
              /\ Left(k) < Right(k) /\ Bottom(k) < Top(k)
              /\ 0 <= Left(k) /\ Right(k) <= LongestRow * pixelSize
              /\ (baselineRow - Len(grid)) * pixelSize <= Bottom(k)
              /\ Top(k) <= baselineRow * pixelSize
        /\ \A j, k \in 1..SubPathCount : j # k => InteriorsDisjoint(j, k)
        /\ AreaSum(SubPathCount) =
               pixelSize * pixelSize * Cardinality(TrueCells(grid))

\* a grid whose first row is shorter than its second was mapped with pixel
\* size 2 and a baseline row inside the grid: two sub-paths, the second
\* reaching the right edge of the longer row
C30_Witness ==
    /\ pc = "path"
    /\ pixelSize = 2
    /\ baselineRow = 1
    /\ grid = << <<TRUE>>, <<TRUE, TRUE>> >>
    /\ SubPathCount = 2
    /\ AreaSum(2) = 12
    /\ \E k \in 1..2 : Right(k) = 4 /\ Bottom(k) = -2

====
